---- MODULE Spec2Model ----
(***************************************************************************)
(* RedirFS path registry (src/redirfs/rfs_path.c): the list of rfs_path    *)
(* objects, their include/exclude chains and reference counts, the two     *)
(* mutexes that serialise the entry points, and the rename propagation     *)
(* rfs_fsrename.  Every thread of the model is a kernel thread calling     *)
(* into the registry; its pc is its position in the entry point.           *)
(***************************************************************************)
EXTENDS Integers, Sequences, FiniteSets, TLC

\* ------------------------------------------------------------------ bounds
NFlt == 2
NKeys == 2
NSb == 2
MaxObj == 3
MaxHeld == 1
MaxHeldConc == 2
NThreads == 2
NAdders == 3
NIdKeys == 3
MaxSize == 14
MaxDepth == 2
MaxMounts == 2
MaxBuf == 8
MaxHeldIds == 3

Max(a, b) == IF a > b THEN a ELSE b

\* filters: the registry specifications use 1..NFlt, the concurrent adders one
\* filter each
Flts == 1..Max(NFlt, NAdders)
Keys == 1..NKeys
Objs == 1..MaxObj
Threads == 1..Max(NThreads, NAdders)

\* superblock of a (mnt, dentry) pair: dentry->d_inode->i_sb
SbOf(k) == 1 + (k % NSb)

\* ------------------------------------------------- chains (rfs_chain.c)
\* A chain is a duplicate-free sequence of filters; NULL is << >>.
InChain(ch, f) == \E i \in 1..Len(ch) : ch[i] = f

rfs_chain_find(ch, f) ==
  IF InChain(ch, f) THEN (CHOOSE i \in 1..Len(ch) : ch[i] = f) - 1 ELSE -1

rfs_chain_add(ch, f) == Append(ch, f)

rfs_chain_rem(ch, f) == SelectSeq(ch, LAMBDA x : x # f)

rfs_chain_diff(a, b) == SelectSeq(a, LAMBDA x : rfs_chain_find(b, x) = -1)

\* all duplicate-free chains over the filters
Chains ==
  UNION {{s \in [1..n -> 1..NFlt] : \A i, j \in 1..n : i # j => s[i] # s[j]} : n \in 0..NFlt}

\* ------------------------------------------------------------ variables
VARIABLES
  rfs_path_list,       \* the registry list, in list order (object slots)
  rpath,               \* the rfs_path objects, by slot
  paths_nr,            \* rflt->paths_nr of every filter
  held,                \* references handed to callers and not yet released
  rfs_path_mutex,      \* holder of the registry mutex, 0 when free
  s_vfs_rename_mutex,  \* holder of each superblock's rename mutex
  pc,                  \* position of each thread
  loc,                 \* each thread's call: arguments, locals, result
  ren,                 \* each thread's rename inputs and chain, and the
                       \* collaborator calls of its current call
  bug                  \* "none", or the kernel fault that stopped the system

vars ==
  <<rfs_path_list, rpath, paths_nr, held, rfs_path_mutex, s_vfs_rename_mutex,
    pc, loc, ren, bug>>

regvars == <<rfs_path_list, rpath, paths_nr>>

\* a slot holding no object (never allocated, or kfree'd)
NoPath ==
  [live |-> FALSE, key |-> 0, id |-> 0, rinch |-> << >>, rexch |-> << >>,
   rroot |-> FALSE, count |-> 0]

NoLoc ==
  [op |-> "none", f |-> 0, k |-> 0, flags |-> "0", path |-> 0, sb |-> 0,
   rv |-> "none", ret |-> 0, paths |-> << >>, i |-> 0, outer |-> "none",
   names |-> << >>, buf |-> << >>]

NoRen ==
  [rinode |-> "null", rdentry |-> "null", isroot |-> FALSE,
   rootchain |-> [x \in {"r1", "r2"} |-> << >>], src |-> "NULL", dst |-> "NULL",
   dch |-> << >>, calls |-> << >>]

\* the registry as one value, threaded through the helpers of a handler
Reg == [list |-> rfs_path_list, rp |-> rpath, nr |-> paths_nr, bug |-> bug]

Init ==
  /\ rfs_path_list = << >>
  /\ rpath = [o \in Objs |-> NoPath]
  /\ paths_nr = [f \in Flts |-> 0]
  /\ held = [o \in Objs |-> 0]
  /\ rfs_path_mutex = 0
  /\ s_vfs_rename_mutex = [s \in 1..NSb |-> 0]
  /\ pc = [t \in Threads |-> "idle"]
  /\ loc = [t \in Threads |-> NoLoc]
  /\ ren = [t \in Threads |-> NoRen]
  /\ bug = "none"

\* ------------------------------------------------ reference counting
\* rfs_path_get: BUG_ON(!count), then atomic_inc
rfs_path_get(S, o) ==
  IF ~S.rp[o].live THEN [S EXCEPT !.bug = "use_after_free"]
  ELSE IF S.rp[o].count = 0 THEN [S EXCEPT !.bug = "BUG_ON"]
  ELSE [S EXCEPT !.rp[o].count = @ + 1]

\* rfs_path_put: BUG_ON(!count), atomic_dec_and_test, kfree at zero
rfs_path_put(S, o) ==
  IF ~S.rp[o].live THEN [S EXCEPT !.bug = "use_after_free"]
  ELSE IF S.rp[o].count = 0 THEN [S EXCEPT !.bug = "BUG_ON"]
  ELSE IF S.rp[o].count = 1 THEN [S EXCEPT !.rp[o] = NoPath]
  ELSE [S EXCEPT !.rp[o].count = @ - 1]

\* -------------------------------------------------- list and lookups
RECURSIVE FindKey(_, _, _)
FindKey(S, pos, k) ==
  IF pos > Len(S.list) THEN 0
  ELSE IF S.rp[S.list[pos]].key = k THEN S.list[pos]
  ELSE FindKey(S, pos + 1, k)

\* a scan that never finds the (mnt, dentry) it is asked for: C2 fails
\* against it
PathAt_none(S, k) == 0

\* the scan of rfs_path_find: first object of the list with this
\* (mnt, dentry), 0 when none
PathAt(S, k) == FindKey(S, 1, k)

RECURSIVE FindId(_, _, _)
FindId(S, pos, id) ==
  IF pos > Len(S.list) THEN 0
  ELSE IF S.rp[S.list[pos]].id = id THEN S.list[pos]
  ELSE FindId(S, pos + 1, id)

\* the scan of rfs_path_find_id: first object of the list with this id
PathWithId(S, id) == FindId(S, 1, id)

RECURSIVE IdScan(_, _, _)
IdScan(S, pos, i) ==
  IF pos > Len(S.list) THEN i
  ELSE IdScan(S, pos + 1, IF S.rp[S.list[pos]].id = i THEN i + 1 ELSE i)

\* an id taken from the length of the list: C12 fails against it
rfs_path_get_id_count(S) == Len(S.list)

\* rfs_path_get_id: one pass over the list, i stepping past each equal id in
\* list order (the continue resumes the inner loop), then return i
rfs_path_get_id(S) == IdScan(S, 1, 0)

rfs_path_list_add(S, o) ==
  rfs_path_get([S EXCEPT !.list = Append(@, o)], o)

rfs_path_list_rem(S, o) ==
  rfs_path_put([S EXCEPT !.list = SelectSeq(@, LAMBDA x : x # o)], o)

\* kzalloc: the lowest slot that holds no object and that no caller still
\* points to; 0 when memory is exhausted
FreeSlot(S) ==
  IF \E o \in Objs : ~S.rp[o].live /\ held[o] = 0
  THEN CHOOSE o \in Objs :
         /\ ~S.rp[o].live /\ held[o] = 0
         /\ \A q \in Objs : (~S.rp[q].live /\ held[q] = 0) => o <= q
  ELSE 0

\* rfs_root_add_rpath / rfs_root_rem_rpath: the root's path list holds one
\* reference of the path
rfs_root_add_rpath(S, o) == rfs_path_get(S, o)

rfs_root_rem_rpath(S, o) == rfs_path_put(S, o)

\* rfs_path_find: the scan for (mnt, dentry), with a reference on what it
\* found; result [S, rpath]
rfs_path_find(S, k) ==
  LET found == PathAt(S, k)
  IN IF found # 0 THEN [S |-> rfs_path_get(S, found), rpath |-> found]
     ELSE [S |-> S, rpath |-> 0]

\* rfs_path_add once the scan found nothing: a new id, a new object with the
\* caller's reference, its root, the list; result [S, rpath, err]
rfs_path_add_new(S, k, fail) ==
  LET id == rfs_path_get_id(S)
      o == FreeSlot(S)
      S1 == [S EXCEPT !.rp[o] =
               [live |-> TRUE, key |-> k, id |-> id, rinch |-> << >>,
                rexch |-> << >>, rroot |-> FALSE, count |-> 1]]
      S2 == [rfs_root_add_rpath(S1, o) EXCEPT !.rp[o].rroot = TRUE]
  IN IF id < 0
       THEN [S |-> S, rpath |-> 0, err |-> "EBUSY"]
     ELSE IF o = 0 \/ fail = "path_alloc"
       THEN [S |-> S, rpath |-> 0, err |-> "ENOMEM"]
     ELSE IF fail = "root_add"
       THEN [S |-> rfs_path_put(S1, o), rpath |-> 0, err |-> "ENOMEM"]
     ELSE [S |-> rfs_path_list_add(S2, o), rpath |-> o, err |-> "OK"]

\* an rfs_path_rem that leaves the path where it is: C14 fails against it
rfs_path_rem_never(S, o, ub) == S

\* rfs_path_rem: drop the path from its root and from the list once both
\* chains are empty.  rpath->rroot is NULL when the path was dropped before:
\* rfs_root_rem_rpath then works on a NULL root (ub: the fault, or a build
\* that goes on to the list removal).
rfs_path_rem(S, o, ub) ==
  IF S.rp[o].rinch # << >> \/ S.rp[o].rexch # << >> THEN S
  ELSE IF ~S.rp[o].rroot
    THEN IF ub = "oops" THEN [S EXCEPT !.bug = "null_deref"]
         ELSE rfs_path_list_rem(S, o)
  ELSE rfs_path_list_rem([rfs_root_rem_rpath(S, o) EXCEPT !.rp[o].rroot = FALSE], o)

\* ------------------------------------------------------ chain updates
\* Each result is [S, rv].  fail names the one collaborator call that fails
\* in this call, if any (every such failure is reported as ENOMEM here).
Fails == {"none", "path_alloc", "root_add", "add_dirs", "chain", "root_flt"}

\* rfs_path_add_include without its look at the exclude chain: C17 fails
\* against it
rfs_path_add_include_unchecked(S, o, f, fail) ==
  IF rfs_chain_find(S.rp[o].rinch, f) # -1 THEN [S |-> S, rv |-> "OK"]
  ELSE IF fail \in {"add_dirs", "chain", "root_flt"} THEN [S |-> S, rv |-> "ENOMEM"]
  ELSE [S |-> [S EXCEPT !.rp[o].rinch = rfs_chain_add(@, f), !.nr[f] = @ + 1],
        rv |-> "OK"]

rfs_path_add_include(S, o, f, fail) ==
  IF rfs_chain_find(S.rp[o].rinch, f) # -1 THEN [S |-> S, rv |-> "OK"]
  ELSE IF rfs_chain_find(S.rp[o].rexch, f) # -1 THEN [S |-> S, rv |-> "EEXIST"]
  ELSE IF fail \in {"add_dirs", "chain", "root_flt"} THEN [S |-> S, rv |-> "ENOMEM"]
  ELSE [S |-> [S EXCEPT !.rp[o].rinch = rfs_chain_add(@, f), !.nr[f] = @ + 1],
        rv |-> "OK"]

\* rfs_path_add_exclude without its look at the include chain: C1 fails
\* against it
rfs_path_add_exclude_unchecked(S, o, f, fail) ==
  IF rfs_chain_find(S.rp[o].rexch, f) # -1 THEN [S |-> S, rv |-> "OK"]
  ELSE IF fail \in {"chain", "root_flt"} THEN [S |-> S, rv |-> "ENOMEM"]
  ELSE [S |-> [S EXCEPT !.rp[o].rexch = rfs_chain_add(@, f), !.nr[f] = @ + 1],
        rv |-> "OK"]

\* rfs_path_add_exclude without its first look at the exclude chain: C19
\* fails against it
rfs_path_add_exclude_again(S, o, f, fail) ==
  IF rfs_chain_find(S.rp[o].rinch, f) # -1 THEN [S |-> S, rv |-> "EEXIST"]
  ELSE IF fail \in {"chain", "root_flt"} THEN [S |-> S, rv |-> "ENOMEM"]
  ELSE [S |-> [S EXCEPT !.rp[o].rexch = rfs_chain_add(@, f), !.nr[f] = @ + 1],
        rv |-> "OK"]

rfs_path_add_exclude(S, o, f, fail) ==
  IF rfs_chain_find(S.rp[o].rexch, f) # -1 THEN [S |-> S, rv |-> "OK"]
  ELSE IF rfs_chain_find(S.rp[o].rinch, f) # -1 THEN [S |-> S, rv |-> "EEXIST"]
  ELSE IF fail \in {"chain", "root_flt"} THEN [S |-> S, rv |-> "ENOMEM"]
  ELSE [S |-> [S EXCEPT !.rp[o].rexch = rfs_chain_add(@, f), !.nr[f] = @ + 1],
        rv |-> "OK"]

\* ------------------------------------- the calls of the chain updates
\* one call to a collaborator: its name, the root or chain it is given, the
\* filter, and its result
Call(op, root, chain, f, err) ==
  [op |-> op, root |-> root, chain |-> chain, f |-> f, err |-> err]

\* rfs_path_add_dirs, lines 203-214, on the root dentry of the superblock:
\* rfs_inode_find, and rfs_dcache_walk when it found nothing (seen is what
\* rfs_inode_find finds)
rfs_path_add_dirs_calls(seen, fail) ==
  <<Call("rfs_inode_find", "s_root", << >>, 0, IF seen THEN "OK" ELSE "NULL")>>
  \o (IF seen THEN << >>
      ELSE <<Call("rfs_dcache_walk", "s_root", << >>, 0,
                  IF fail = "add_dirs" THEN "ENOMEM" ELSE "OK")>>)

\* rfs_path_add_include without its rfs_path_add_dirs: C25 fails against it
rfs_path_add_include_calls_unseeded(S, o, f, seen, fail) ==
  IF rfs_chain_find(S.rp[o].rinch, f) # -1 THEN << >>
  ELSE IF rfs_chain_find(S.rp[o].rexch, f) # -1 THEN << >>
  ELSE IF fail \in {"add_dirs", "chain"} THEN << >>
  ELSE <<Call("rfs_root_add_include", "rroot", rfs_chain_add(S.rp[o].rinch, f), f,
              IF fail = "root_flt" THEN "ENOMEM" ELSE "OK")>>

\* the collaborator calls of rfs_path_add_include, lines 216-246, in order
rfs_path_add_include_calls(S, o, f, seen, fail) ==
  IF rfs_chain_find(S.rp[o].rinch, f) # -1 THEN << >>
  ELSE IF rfs_chain_find(S.rp[o].rexch, f) # -1 THEN << >>
  ELSE IF fail \in {"add_dirs", "chain"} THEN rfs_path_add_dirs_calls(seen, fail)
  ELSE rfs_path_add_dirs_calls(seen, fail)
       \o <<Call("rfs_root_add_include", "rroot", rfs_chain_add(S.rp[o].rinch, f), f,
                 IF fail = "root_flt" THEN "ENOMEM" ELSE "OK")>>

\* the collaborator calls of rfs_path_add_exclude, lines 248-274, in order
rfs_path_add_exclude_calls(S, o, f, fail) ==
  IF rfs_chain_find(S.rp[o].rexch, f) # -1 THEN << >>
  ELSE IF rfs_chain_find(S.rp[o].rinch, f) # -1 THEN << >>
  ELSE IF fail = "chain" THEN << >>
  ELSE <<Call("rfs_root_add_exclude", "rroot", rfs_chain_add(S.rp[o].rexch, f), f,
              IF fail = "root_flt" THEN "ENOMEM" ELSE "OK")>>

\* rfs_path_rem_include without the paths_nr-- of line 296: C13 fails against
\* it
rfs_path_rem_include_uncounted(S, o, f, fail) ==
  IF rfs_chain_find(S.rp[o].rinch, f) = -1 THEN [S |-> S, rv |-> "OK"]
  ELSE IF fail \in {"chain", "root_flt"} THEN [S |-> S, rv |-> "ENOMEM"]
  ELSE [S |-> [S EXCEPT !.rp[o].rinch = rfs_chain_rem(@, f)], rv |-> "OK"]

rfs_path_rem_include(S, o, f, fail) ==
  IF rfs_chain_find(S.rp[o].rinch, f) = -1 THEN [S |-> S, rv |-> "OK"]
  ELSE IF fail \in {"chain", "root_flt"} THEN [S |-> S, rv |-> "ENOMEM"]
  ELSE [S |-> [S EXCEPT !.rp[o].rinch = rfs_chain_rem(@, f), !.nr[f] = @ - 1],
        rv |-> "OK"]

rfs_path_rem_exclude(S, o, f, fail) ==
  IF rfs_chain_find(S.rp[o].rexch, f) = -1 THEN [S |-> S, rv |-> "OK"]
  ELSE IF fail \in {"chain", "root_flt"} THEN [S |-> S, rv |-> "ENOMEM"]
  ELSE [S |-> [S EXCEPT !.rp[o].rexch = rfs_chain_rem(@, f), !.nr[f] = @ - 1],
        rv |-> "OK"]

\* ------------------------------------------------------ thread helpers
SetReg(S) ==
  /\ rfs_path_list' = S.list
  /\ rpath' = S.rp
  /\ paths_nr' = S.nr
  /\ bug' = S.bug

Goto(t, p) == pc' = [pc EXCEPT ![t] = p]

\* mutex_lock(&sb->s_vfs_rename_mutex): blocks while another thread holds it
LockRename(t, from, to) ==
  /\ bug = "none" /\ pc[t] = from
  /\ s_vfs_rename_mutex[loc[t].sb] = 0
  /\ s_vfs_rename_mutex' = [s_vfs_rename_mutex EXCEPT ![loc[t].sb] = t]
  /\ Goto(t, to)
  /\ UNCHANGED <<regvars, held, rfs_path_mutex, loc, ren, bug>>

\* a thread back in "idle" keeps the value its call returned and nothing else
Returned(t, to) ==
  IF to = "idle" THEN [loc EXCEPT ![t] = [NoLoc EXCEPT !.rv = loc[t].rv]] ELSE loc

UnlockRename(t, from, to) ==
  /\ bug = "none" /\ pc[t] = from
  /\ s_vfs_rename_mutex' = [s_vfs_rename_mutex EXCEPT ![loc[t].sb] = 0]
  /\ Goto(t, to)
  /\ loc' = Returned(t, to)
  /\ ren' = IF to = "idle" THEN [ren EXCEPT ![t] = NoRen] ELSE ren
  /\ UNCHANGED <<regvars, held, rfs_path_mutex, bug>>

\* a registry mutex that does not make its caller wait: C8 fails against it
LockPath_nowait(t, from, to) ==
  /\ bug = "none" /\ pc[t] = from
  /\ rfs_path_mutex' = t
  /\ Goto(t, to)
  /\ UNCHANGED <<regvars, held, s_vfs_rename_mutex, loc, ren, bug>>

\* mutex_lock(&rfs_path_mutex)
LockPath(t, from, to) ==
  /\ bug = "none" /\ pc[t] = from
  /\ rfs_path_mutex = 0
  /\ rfs_path_mutex' = t
  /\ Goto(t, to)
  /\ UNCHANGED <<regvars, held, s_vfs_rename_mutex, loc, ren, bug>>

UnlockPath(t, from, to) ==
  /\ bug = "none" /\ pc[t] = from
  /\ rfs_path_mutex' = 0
  /\ Goto(t, to)
  /\ loc' = Returned(t, to)
  /\ held' = IF to = "idle" /\ loc[t].op = "get_paths"
             THEN [o \in Objs |-> held[o] + Cardinality({i \in 1..Len(loc[t].paths) : loc[t].paths[i] = o})]
             ELSE held
  /\ ren' = IF to = "idle" THEN [ren EXCEPT ![t] = NoRen] ELSE ren
  /\ UNCHANGED <<regvars, s_vfs_rename_mutex, bug>>

\* the bound on the references callers keep: the specifications start a call
\* that may hand out a reference only while there is room for it
Running == {t \in Threads : pc[t] # "idle"}

RECURSIVE SumHeld(_)
SumHeld(os) == IF os = {} THEN 0 ELSE LET o == CHOOSE x \in os : TRUE IN held[o] + SumHeld(os \ {o})

HandleRoom(n) == SumHeld(Objs) < n

\* where a returning redirfs_rem_path goes: back into the loop of
\* redirfs_rem_paths, or to the caller
AfterRem(t) == IF loc[t].outer = "rem_paths" THEN "rems_check" ELSE "idle"

\* ----------------------------------------------------- redirfs_add_path
redirfs_add_path_call(t, f, k, flags) ==
  /\ bug = "none" /\ pc[t] = "idle"
  /\ IF f = 0 \/ k = 0 \/ flags = "0"
       THEN /\ loc' = [loc EXCEPT ![t] = [NoLoc EXCEPT !.rv = "EINVAL"]]
            /\ pc' = pc
       ELSE /\ loc' = [loc EXCEPT ![t] =
                 [NoLoc EXCEPT !.op = "add_path", !.f = f, !.k = k,
                               !.flags = flags, !.sb = SbOf(k)]]
            /\ Goto(t, "add_lock_rename")
  /\ UNCHANGED <<regvars, held, rfs_path_mutex, s_vfs_rename_mutex, bug>>
  /\ ren' = ren

redirfs_add_path_lock_rename(t) ==
  /\ pc[t] = "add_lock_rename"
  /\ LockRename(t, "add_lock_rename", "add_lock_path")
redirfs_add_path_lock_path(t) ==
  /\ pc[t] = "add_lock_path"
  /\ LockPath(t, "add_lock_path", "add_find")
\* line 351, under both mutexes: rfs_path_add up to the scan of the list
redirfs_add_path_find(t) ==
  /\ bug = "none" /\ pc[t] = "add_find"
  /\ LET a == rfs_path_find(Reg, loc[t].k)
     IN /\ SetReg(a.S)
        /\ loc' = [loc EXCEPT ![t].path = a.rpath]
        /\ Goto(t, IF a.rpath # 0 THEN "add_chain" ELSE "add_new")
  /\ UNCHANGED <<held, rfs_path_mutex, s_vfs_rename_mutex, ren>>

\* lines 351-353: the rest of rfs_path_add when the scan found nothing
redirfs_add_path_new(t, fail) ==
  /\ bug = "none" /\ pc[t] = "add_new"
  /\ LET a == rfs_path_add_new(Reg, loc[t].k, fail)
     IN /\ SetReg(a.S)
        /\ IF a.err # "OK"
             THEN /\ loc' = [loc EXCEPT ![t].rv = a.err, ![t].ret = 0]
                  /\ Goto(t, "add_unlock_path")
             ELSE /\ loc' = [loc EXCEPT ![t].path = a.rpath]
                  /\ Goto(t, "add_chain")
  /\ UNCHANGED <<held, rfs_path_mutex, s_vfs_rename_mutex, ren>>

\* lines 355-369 without the rfs_path_rem of line 366: C18 fails against it
AddPathChain_unremoved(S, o, f, flags, fail) ==
  LET r == IF flags = "INCLUDE" THEN rfs_path_add_include(S, o, f, fail)
           ELSE IF flags = "EXCLUDE" THEN rfs_path_add_exclude(S, o, f, fail)
           ELSE [S |-> S, rv |-> "EINVAL"]
  IN IF r.rv # "OK" THEN [S |-> rfs_path_put(r.S, o), rv |-> r.rv, ret |-> 0]
     ELSE [S |-> r.S, rv |-> "OK", ret |-> o]

\* lines 355-369: the chain update, rfs_path_rem, and the reference given
\* back on failure; result [S, rv, ret]
AddPathChain(S, o, f, flags, fail) ==
  LET r == IF flags = "INCLUDE" THEN rfs_path_add_include(S, o, f, fail)
           ELSE IF flags = "EXCLUDE" THEN rfs_path_add_exclude(S, o, f, fail)
           ELSE [S |-> S, rv |-> "EINVAL"]
      S3 == rfs_path_rem(r.S, o, "oops")
  IN IF r.rv # "OK" THEN [S |-> rfs_path_put(S3, o), rv |-> r.rv, ret |-> 0]
     ELSE [S |-> S3, rv |-> "OK", ret |-> o]

\* the walk of rfs_path_add_dirs can only fail when it is made: seen is what
\* rfs_inode_find finds
redirfs_add_path_chain(t, seen, fail) ==
  /\ bug = "none" /\ pc[t] = "add_chain"
  /\ LET fl == IF seen /\ fail = "add_dirs" THEN "none" ELSE fail
         b == AddPathChain(Reg, loc[t].path, loc[t].f, loc[t].flags, fl)
         made == IF loc[t].flags = "INCLUDE"
                   THEN rfs_path_add_include_calls(Reg, loc[t].path, loc[t].f, seen, fl)
                 ELSE IF loc[t].flags = "EXCLUDE"
                   THEN rfs_path_add_exclude_calls(Reg, loc[t].path, loc[t].f, fl)
                 ELSE << >>
     IN /\ SetReg(b.S)
        /\ loc' = [loc EXCEPT ![t].rv = b.rv, ![t].ret = b.ret]
        /\ held' = IF b.ret # 0 THEN [held EXCEPT ![b.ret] = @ + 1] ELSE held
        /\ ren' = [ren EXCEPT ![t].calls = made]
  /\ Goto(t, "add_unlock_path")
  /\ UNCHANGED <<rfs_path_mutex, s_vfs_rename_mutex>>

redirfs_add_path_unlock_path(t) ==
  /\ pc[t] = "add_unlock_path"
  /\ UnlockPath(t, "add_unlock_path", "add_unlock_rename")
redirfs_add_path_unlock_rename(t) ==
  /\ pc[t] = "add_unlock_rename"
  /\ UnlockRename(t, "add_unlock_rename", "idle")
\* ----------------------------------------------------- redirfs_rem_path
\* path is a reference the caller holds; the rename mutex is reached through
\* rpath->dentry, a read of the object
redirfs_rem_path_call(t, f, o) ==
  /\ bug = "none" /\ pc[t] = "idle"
  /\ o # 0 => held[o] > 0
  /\ IF f = 0 \/ o = 0
       THEN /\ loc' = [loc EXCEPT ![t] = [NoLoc EXCEPT !.rv = "EINVAL"]]
            /\ UNCHANGED <<pc, bug>>
       ELSE IF ~rpath[o].live
         THEN /\ bug' = "use_after_free"
              /\ loc' = [loc EXCEPT ![t] =
                   [NoLoc EXCEPT !.op = "rem_path", !.f = f, !.path = o]]
              /\ pc' = pc
         ELSE /\ loc' = [loc EXCEPT ![t] =
                   [NoLoc EXCEPT !.op = "rem_path", !.f = f, !.path = o,
                                 !.sb = SbOf(rpath[o].key)]]
              /\ Goto(t, "rem_lock_rename")
              /\ bug' = bug
  /\ UNCHANGED <<regvars, held, rfs_path_mutex, s_vfs_rename_mutex>>
  /\ ren' = ren

\* redirfs_rem_path taking the registry mutex first and the rename mutex
\* second: C9 fails against it
redirfs_rem_path_lock_inverted(t) ==
  /\ bug = "none" /\ pc[t] = "rem_lock_rename"
  /\ IF rfs_path_mutex # t
       THEN /\ rfs_path_mutex = 0
            /\ rfs_path_mutex' = t
            /\ UNCHANGED <<s_vfs_rename_mutex, pc>>
       ELSE /\ s_vfs_rename_mutex[loc[t].sb] = 0
            /\ s_vfs_rename_mutex' = [s_vfs_rename_mutex EXCEPT ![loc[t].sb] = t]
            /\ Goto(t, "rem_body")
            /\ UNCHANGED rfs_path_mutex
  /\ UNCHANGED <<regvars, held, loc, ren, bug>>

redirfs_rem_path_lock_rename(t) ==
  /\ pc[t] = "rem_lock_rename"
  /\ LockRename(t, "rem_lock_rename", "rem_lock_path")
redirfs_rem_path_lock_path(t) ==
  /\ pc[t] = "rem_lock_path"
  /\ LockPath(t, "rem_lock_path", "rem_body")
\* lines 396-405, under both mutexes; result [S, rv]
RemPathBody(S, f, o, fail, ub) ==
  LET r == IF rfs_chain_find(S.rp[o].rinch, f) # -1 THEN rfs_path_rem_include(S, o, f, fail)
           ELSE IF rfs_chain_find(S.rp[o].rexch, f) # -1 THEN rfs_path_rem_exclude(S, o, f, fail)
           ELSE [S |-> S, rv |-> "EINVAL"]
  IN [S |-> rfs_path_rem(r.S, o, ub), rv |-> r.rv]

redirfs_rem_path_body(t, fail, ub) ==
  /\ bug = "none" /\ pc[t] = "rem_body"
  /\ LET b == RemPathBody(Reg, loc[t].f, loc[t].path, fail, ub)
     IN /\ SetReg(b.S)
        /\ loc' = [loc EXCEPT ![t].rv = b.rv]
  /\ Goto(t, "rem_unlock_path")
  /\ UNCHANGED <<held, rfs_path_mutex, s_vfs_rename_mutex, ren>>

redirfs_rem_path_unlock_path(t) ==
  /\ pc[t] = "rem_unlock_path"
  /\ UnlockPath(t, "rem_unlock_path", "rem_unlock_rename")
\* what a read of a kfree'd path can give: the old contents, a fault, or
\* other contents that lead mutex_unlock to some other address
FreedReads == {"intact", "oops", "stray"}

\* line 408 reaches the rename mutex through rpath->dentry once more, after
\* rfs_path_rem (line 405) may have dropped the last reference of the path:
\* on a freed path the read is of freed memory, and the mutex taken at line
\* 393 is released, or the thread faults holding it, or the call returns
\* with it still locked
redirfs_rem_path_unlock_rename(t) ==
  /\ pc[t] = "rem_unlock_rename"
  /\ IF rpath[loc[t].path].live
       THEN UnlockRename(t, "rem_unlock_rename", AfterRem(t))
       ELSE \E rd \in FreedReads :
              IF rd = "intact" THEN UnlockRename(t, "rem_unlock_rename", AfterRem(t))
              ELSE /\ bug = "none" /\ bug' = "use_after_free"
                   /\ IF rd = "oops" THEN UNCHANGED <<pc, loc, ren>>
                      ELSE /\ Goto(t, AfterRem(t))
                           /\ loc' = Returned(t, AfterRem(t))
                           /\ ren' = IF AfterRem(t) = "idle" THEN [ren EXCEPT ![t] = NoRen] ELSE ren
                   /\ UNCHANGED <<regvars, held, rfs_path_mutex, s_vfs_rename_mutex>>
\* ---------------------------------- redirfs_get_path / redirfs_put_path
\* a reference its holder has passed to a running redirfs_rem_path or
\* redirfs_get_path_info is not released under that call
Using(o) ==
  {t \in Running : /\ loc[t].path = o /\ loc[t].outer = "none"
                   /\ loc[t].op \in {"rem_path", "get_path_info"}}

redirfs_get_path(t, o) ==
  /\ bug = "none" /\ pc[t] = "idle"
  /\ held[o] > 0
  /\ SetReg(rfs_path_get(Reg, o))
  /\ held' = [held EXCEPT ![o] = @ + 1]
  /\ loc' = [loc EXCEPT ![t] = [NoLoc EXCEPT !.rv = "OK"]]
  /\ UNCHANGED <<rfs_path_mutex, s_vfs_rename_mutex, pc>>
  /\ ren' = ren

redirfs_put_path(t, o) ==
  /\ bug = "none" /\ pc[t] = "idle"
  /\ held[o] > (IF Using(o) = {} THEN 0 ELSE 1)
  /\ SetReg(rfs_path_put(Reg, o))
  /\ held' = [held EXCEPT ![o] = @ - 1]
  /\ loc' = [loc EXCEPT ![t] = [NoLoc EXCEPT !.rv = "OK"]]
  /\ UNCHANGED <<rfs_path_mutex, s_vfs_rename_mutex, pc>>
  /\ ren' = ren

\* --------------------------------------------------- redirfs_get_paths
\* a scan that looks at the include chain only: C21 fails against it
RECURSIVE CitingFrom_include_only(_, _, _)
CitingFrom_include_only(S, pos, f) ==
  IF pos > Len(S.list) THEN << >>
  ELSE LET o == S.list[pos]
           rest == CitingFrom_include_only(S, pos + 1, f)
       IN IF rfs_chain_find(S.rp[o].rinch, f) # -1 THEN <<o>> \o rest
          ELSE rest

\* the paths of the list citing f, in list order
RECURSIVE CitingFrom(_, _, _)
CitingFrom(S, pos, f) ==
  IF pos > Len(S.list) THEN << >>
  ELSE LET o == S.list[pos]
           rest == CitingFrom(S, pos + 1, f)
       IN IF rfs_chain_find(S.rp[o].rinch, f) # -1 THEN <<o>> \o rest
          ELSE IF rfs_chain_find(S.rp[o].rexch, f) # -1 THEN <<o>> \o rest
          ELSE rest

RECURSIVE GetAll(_, _)
GetAll(S, os) == IF os = << >> THEN S ELSE GetAll(rfs_path_get(S, Head(os)), Tail(os))

RECURSIVE PutAll(_, _)
PutAll(S, os) == IF os = << >> THEN S ELSE PutAll(rfs_path_put(S, Head(os)), Tail(os))

\* lines 515-528, under the registry mutex: the array has paths_nr + 1
\* entries and the scan stores one entry per citing path without a bound
\* check; result [S, rv, paths]
GetPathsBody(S, f, fail) ==
  LET found == CitingFrom(S, 1, f)
  IN IF fail = "chain" \/ S.nr[f] + 1 <= 0
       THEN [S |-> S, rv |-> "ENOMEM", paths |-> << >>]
     ELSE IF Len(found) > S.nr[f]
       THEN [S |-> [S EXCEPT !.bug = "overflow"], rv |-> "OK", paths |-> << >>]
     ELSE [S |-> GetAll(S, found), rv |-> "OK", paths |-> found]

redirfs_get_paths_call(t, f) ==
  /\ bug = "none" /\ pc[t] = "idle"
  /\ IF f = 0
       THEN /\ loc' = [loc EXCEPT ![t] = [NoLoc EXCEPT !.rv = "EINVAL"]]
            /\ pc' = pc
       ELSE /\ loc' = [loc EXCEPT ![t] = [NoLoc EXCEPT !.op = "get_paths", !.f = f]]
            /\ Goto(t, "gps_lock_path")
  /\ UNCHANGED <<regvars, held, rfs_path_mutex, s_vfs_rename_mutex, ren, bug>>

redirfs_get_paths_lock_path(t) ==
  /\ pc[t] = "gps_lock_path"
  /\ LockPath(t, "gps_lock_path", "gps_body")
redirfs_get_paths_body(t, fail) ==
  /\ bug = "none" /\ pc[t] = "gps_body"
  /\ LET b == GetPathsBody(Reg, loc[t].f, fail)
     IN /\ SetReg(b.S)
        /\ loc' = [loc EXCEPT ![t].rv = b.rv, ![t].paths = b.paths]
  /\ Goto(t, "gps_unlock_path")
  /\ UNCHANGED <<held, rfs_path_mutex, s_vfs_rename_mutex, ren>>

\* the array goes to the caller, or to the loop of redirfs_rem_paths
redirfs_get_paths_unlock_path(t) ==
  /\ pc[t] = "gps_unlock_path"
  /\ UnlockPath(t, "gps_unlock_path", IF loc[t].outer = "rem_paths" THEN "rems_loop" ELSE "idle")
\* ---------------------------------------------- redirfs_get_paths_root
\* rfs_root_add(rpath->dentry): the root of a path is that of its dentry.
\* Pair k is dentry DentryOf(k) seen through mount k, so pairs of one
\* superblock share their root.
DentryOf(k) == SbOf(k)

\* rroot->rpaths: the registered paths of root d, oldest first
RootPaths(S, d) ==
  SelectSeq(S.list, LAMBDA o : S.rp[o].rroot /\ DentryOf(S.rp[o].key) = d)

\* rroot->rinch and rroot->rexch: the chains of the root's paths merged
RootInch(S, d) ==
  {f \in Flts : \E i \in 1..Len(RootPaths(S, d)) : InChain(S.rp[RootPaths(S, d)[i]].rinch, f)}
RootExch(S, d) ==
  {f \in Flts : \E i \in 1..Len(RootPaths(S, d)) : InChain(S.rp[RootPaths(S, d)[i]].rexch, f)}

\* lines 473-491, under rroot->lock: the test of each turn of the loop looks
\* at the chains of the root, not at those of rpath; result [S, rv, paths]
GetPathsRootBody(S, f, d, fail) ==
  LET found == IF f \in RootInch(S, d) THEN RootPaths(S, d)
               ELSE IF f \in RootExch(S, d) THEN RootPaths(S, d)
               ELSE << >>
  IN IF fail = "chain" THEN [S |-> S, rv |-> "ENOMEM", paths |-> << >>]
     ELSE [S |-> GetAll(S, found), rv |-> "OK", paths |-> found]

\* root is the root of pair k, which the caller holds while it has a path
redirfs_get_paths_root_call(t, f, k, fail) ==
  /\ bug = "none" /\ pc[t] = "idle"
  /\ k # 0 => RootPaths(Reg, DentryOf(k)) # << >>
  /\ IF f = 0 \/ k = 0
       THEN /\ loc' = [loc EXCEPT ![t] = [NoLoc EXCEPT !.rv = "EINVAL"]]
            /\ UNCHANGED <<pc, regvars, bug>>
       ELSE LET b == GetPathsRootBody(Reg, f, DentryOf(k), fail)
            IN /\ SetReg(b.S)
               /\ loc' = [loc EXCEPT ![t] =
                    [NoLoc EXCEPT !.op = "get_paths_root", !.f = f, !.k = k,
                                  !.rv = b.rv, !.paths = b.paths]]
               /\ Goto(t, "gpr_return")
  /\ UNCHANGED <<held, rfs_path_mutex, s_vfs_rename_mutex, ren>>

\* the array goes to the caller
redirfs_get_paths_root_return(t) ==
  /\ bug = "none" /\ pc[t] = "gpr_return"
  /\ held' = [o \in Objs |->
       held[o] + Cardinality({i \in 1..Len(loc[t].paths) : loc[t].paths[i] = o})]
  /\ loc' = Returned(t, "idle")
  /\ Goto(t, "idle")
  /\ UNCHANGED <<regvars, rfs_path_mutex, s_vfs_rename_mutex, ren, bug>>

\* --------------------------------------------------- redirfs_rem_paths
redirfs_rem_paths_call(t, f) ==
  /\ bug = "none" /\ pc[t] = "idle"
  /\ IF f = 0
       THEN /\ loc' = [loc EXCEPT ![t] = [NoLoc EXCEPT !.rv = "EINVAL"]]
            /\ pc' = pc
       ELSE /\ loc' = [loc EXCEPT ![t] =
                 [NoLoc EXCEPT !.op = "get_paths", !.f = f, !.outer = "rem_paths",
                               !.i = 1, !.ret = 0]]
            /\ Goto(t, "gps_lock_path")
  /\ UNCHANGED <<regvars, held, rfs_path_mutex, s_vfs_rename_mutex, ren, bug>>

\* lines 628-636: the head of the loop.  rv is not initialised: with an empty
\* array the value returned is whatever the stack held (garbage).  loc.ret
\* is 1 once rv has been assigned.
redirfs_rem_paths_loop(t, garbage) ==
  /\ bug = "none" /\ pc[t] = "rems_loop"
  /\ IF loc[t].op = "get_paths" /\ loc[t].rv # "OK"
       THEN /\ loc' = [loc EXCEPT ![t] = [NoLoc EXCEPT !.rv = loc[t].rv]]
            /\ Goto(t, "idle")
            /\ bug' = bug
     ELSE IF loc[t].i > Len(loc[t].paths)
       THEN /\ loc' = [loc EXCEPT ![t].op = "rem_paths",
                                  ![t].rv = IF loc[t].ret = 1 THEN loc[t].rv ELSE garbage]
            /\ Goto(t, "rems_put")
            /\ bug' = bug
     ELSE LET o == loc[t].paths[loc[t].i]
          IN IF ~rpath[o].live
               THEN /\ bug' = "use_after_free" /\ UNCHANGED <<loc, pc>>
               ELSE /\ loc' = [loc EXCEPT ![t].op = "rem_path", ![t].path = o,
                                          ![t].sb = SbOf(rpath[o].key)]
                    /\ Goto(t, "rem_lock_rename")
                    /\ bug' = bug
  /\ UNCHANGED <<regvars, held, rfs_path_mutex, s_vfs_rename_mutex, ren>>

redirfs_rem_paths_check(t) ==
  /\ bug = "none" /\ pc[t] = "rems_check"
  /\ IF loc[t].rv # "OK"
       THEN /\ loc' = [loc EXCEPT ![t].op = "rem_paths"]
            /\ Goto(t, "rems_put")
       ELSE /\ loc' = [loc EXCEPT ![t].i = @ + 1, ![t].ret = 1]
            /\ Goto(t, "rems_loop")
  /\ UNCHANGED <<regvars, held, rfs_path_mutex, s_vfs_rename_mutex, ren, bug>>

\* redirfs_put_paths, then return rv
redirfs_rem_paths_put(t) ==
  /\ bug = "none" /\ pc[t] = "rems_put"
  /\ SetReg(PutAll(Reg, loc[t].paths))
  /\ loc' = [loc EXCEPT ![t] = [NoLoc EXCEPT !.rv = loc[t].rv]]
  /\ Goto(t, "idle")
  /\ UNCHANGED <<held, rfs_path_mutex, s_vfs_rename_mutex, ren>>

\* ----------------------------------------------- redirfs_get_path_info
redirfs_get_path_info_call(t, f, o, fail) ==
  /\ bug = "none" /\ pc[t] = "idle"
  /\ o # 0 => held[o] > 0
  /\ IF f = 0 \/ o = 0
       THEN /\ loc' = [loc EXCEPT ![t] = [NoLoc EXCEPT !.rv = "EINVAL"]]
            /\ pc' = pc
     ELSE IF fail = "path_alloc"
       THEN /\ loc' = [loc EXCEPT ![t] = [NoLoc EXCEPT !.rv = "ENOMEM"]]
            /\ pc' = pc
       ELSE /\ loc' = [loc EXCEPT ![t] = [NoLoc EXCEPT !.op = "get_path_info", !.f = f, !.path = o]]
            /\ Goto(t, "gpi_lock_path")
  /\ UNCHANGED <<regvars, held, rfs_path_mutex, s_vfs_rename_mutex, ren, bug>>

redirfs_get_path_info_lock_path(t) ==
  /\ pc[t] = "gpi_lock_path"
  /\ LockPath(t, "gpi_lock_path", "gpi_body")
\* lines 581-585: which chain of the path cites the filter
redirfs_get_path_info_body(t) ==
  /\ bug = "none" /\ pc[t] = "gpi_body"
  /\ LET o == loc[t].path
     IN IF ~rpath[o].live
          THEN /\ bug' = "use_after_free" /\ UNCHANGED loc
          ELSE /\ bug' = bug
               /\ loc' = [loc EXCEPT ![t].flags =
                    IF rfs_chain_find(rpath[o].rinch, loc[t].f) # -1 THEN "INCLUDE"
                    ELSE IF rfs_chain_find(rpath[o].rexch, loc[t].f) # -1 THEN "EXCLUDE"
                    ELSE "0",
                    ![t].rv = IF InChain(rpath[o].rinch, loc[t].f) \/ InChain(rpath[o].rexch, loc[t].f)
                              THEN "OK" ELSE "ENODATA"]
  /\ Goto(t, "gpi_unlock_path")
  /\ UNCHANGED <<regvars, held, rfs_path_mutex, s_vfs_rename_mutex, ren>>

redirfs_get_path_info_unlock_path(t) ==
  /\ pc[t] = "gpi_unlock_path"
  /\ UnlockPath(t, "gpi_unlock_path", "idle")
\* --------------------------------------------------- rfs_path_get_info
\* the length of the name redirfs_get_filename gives for pair k
NameLen(k) == k

\* the length of the decimal id
IdDigits(id) == IF id < 10 THEN 1 ELSE 2

\* what snprintf returns for "%c:%d:%s": the length of the whole record
RecLen(S, o) == 1 + 1 + IdDigits(S.rp[o].id) + 1 + NameLen(S.rp[o].key)

\* the loop of lines 657-683 without the len = size of line 680: C24 fails
\* against it
RECURSIVE InfoScan_unclamped(_, _, _, _, _, _, _)
InfoScan_unclamped(S, pos, f, size, len, end, fail) ==
  IF pos > Len(S.list) THEN [len |-> len, end |-> end, rv |-> "OK"]
  ELSE LET o == S.list[pos]
           cites == \/ rfs_chain_find(S.rp[o].rinch, f) # -1
                    \/ rfs_chain_find(S.rp[o].rexch, f) # -1
           room == size - len
           wrote == IF room <= 0 THEN 0
                    ELSE IF RecLen(S, o) + 1 <= room THEN RecLen(S, o) + 1 ELSE room
           len2 == len + RecLen(S, o) + 1
       IN IF ~cites THEN InfoScan_unclamped(S, pos + 1, f, size, len, end, fail)
          ELSE IF fail = "chain" THEN [len |-> len, end |-> end, rv |-> "ENAMETOOLONG"]
          ELSE InfoScan_unclamped(S, pos + 1, f, size, len2, Max(end, len + wrote), fail)

\* the loop of lines 657-683 from list position pos on, len bytes accounted
\* for so far and end the highest byte of buf written so far.  snprintf
\* writes at most size - len bytes, the NUL included, and returns the length
\* of the whole record; result [len, end, rv]
RECURSIVE InfoScan(_, _, _, _, _, _, _)
InfoScan(S, pos, f, size, len, end, fail) ==
  IF pos > Len(S.list) THEN [len |-> len, end |-> end, rv |-> "OK"]
  ELSE LET o == S.list[pos]
           cites == \/ rfs_chain_find(S.rp[o].rinch, f) # -1
                    \/ rfs_chain_find(S.rp[o].rexch, f) # -1
           room == size - len
           wrote == IF room <= 0 THEN 0
                    ELSE IF RecLen(S, o) + 1 <= room THEN RecLen(S, o) + 1 ELSE room
           len2 == len + RecLen(S, o) + 1
       IN IF ~cites THEN InfoScan(S, pos + 1, f, size, len, end, fail)
          ELSE IF fail = "chain" THEN [len |-> len, end |-> end, rv |-> "ENAMETOOLONG"]
          ELSE IF len2 >= size THEN [len |-> size, end |-> Max(end, len + wrote), rv |-> "OK"]
          ELSE InfoScan(S, pos + 1, f, size, len2, Max(end, len + wrote), fail)

\* size is the size of buf, kept in loc.i
rfs_path_get_info_call(t, f, size, fail) ==
  /\ bug = "none" /\ pc[t] = "idle"
  /\ IF fail = "path_alloc"
       THEN /\ loc' = [loc EXCEPT ![t] = [NoLoc EXCEPT !.rv = "ENOMEM"]]
            /\ pc' = pc
       ELSE /\ loc' = [loc EXCEPT ![t] = [NoLoc EXCEPT !.op = "path_get_info", !.f = f,
                                                       !.i = size]]
            /\ Goto(t, "info_lock_path")
  /\ UNCHANGED <<regvars, held, rfs_path_mutex, s_vfs_rename_mutex, ren, bug>>

rfs_path_get_info_lock_path(t) ==
  /\ pc[t] = "info_lock_path"
  /\ LockPath(t, "info_lock_path", "info_body")
\* lines 657-683: one record per citing path; redirfs_get_filename may fail;
\* the value returned is kept in loc.ret
rfs_path_get_info_body(t, fail) ==
  /\ bug = "none" /\ pc[t] = "info_body"
  /\ LET r == InfoScan(Reg, 1, loc[t].f, loc[t].i, 0, 0, fail)
     IN loc' = [loc EXCEPT ![t].rv = r.rv,
                           ![t].ret = IF r.rv = "OK" THEN r.len ELSE 0,
                           ![t].paths = CitingFrom(Reg, 1, loc[t].f)]
  /\ Goto(t, "info_unlock_path")
  /\ UNCHANGED <<regvars, held, rfs_path_mutex, s_vfs_rename_mutex, ren, bug>>

rfs_path_get_info_unlock_path(t) ==
  /\ pc[t] = "info_unlock_path"
  /\ UnlockPath(t, "info_unlock_path", "idle")
\* ------------------------------------------------ redirfs_get_filename
\* A name is a sequence of characters.  The entry is given as the names from
\* the root of its mount down to it, followed by the same for the mountpoint
\* of that mount in its parent mount, and so on up to the mount that has no
\* parent (follow_up, line 741).  buf is indexed from 1; end and size are as
\* in the code, end being an offset into buf.
NameSet == {<<"a">>, <<"b", "c">>}
DentryPaths == UNION {[1..n -> NameSet] : n \in 0..MaxDepth}
MountChains == UNION {[1..m -> DentryPaths] : m \in 1..MaxMounts}

\* memcpy of the characters of name to offset e of buffer b
CopyAt(b, e, name) ==
  [i \in 1..Len(b) |-> IF i - e \in 1..Len(name) THEN name[i - e] ELSE b[i]]

\* one turn of the loop with the slash left out of the size: C26 fails
\* against it
NameStep_noslash(g, name) ==
  LET size2 == g.size - Len(name)
      end2 == g.end - Len(name)
  IN IF size2 < 0 THEN [g EXCEPT !.rv = "ENAMETOOLONG"]
     ELSE IF end2 - 1 < 0 THEN [g EXCEPT !.rv = "overflow"]
     ELSE [buf |-> [CopyAt(g.buf, end2, name) EXCEPT ![end2] = "/"],
           end |-> end2 - 1, size |-> size2, rv |-> "OK"]

\* lines 719-730, one turn of the loop for the dentry called name: a write
\* below buf[0] is recorded as overflow
NameStep(g, name) ==
  LET size2 == g.size - (Len(name) + 1)
      end2 == g.end - Len(name)
  IN IF size2 < 0 THEN [g EXCEPT !.rv = "ENAMETOOLONG"]
     ELSE IF end2 - 1 < 0 THEN [g EXCEPT !.rv = "overflow"]
     ELSE [buf |-> [CopyAt(g.buf, end2, name) EXCEPT ![end2] = "/"],
           end |-> end2 - 1, size |-> size2, rv |-> "OK"]

\* the loop of lines 719-730 from the entry up to the root of one mount
RECURSIVE MountLoop(_, _)
MountLoop(g, comps) ==
  IF g.rv # "OK" \/ comps = << >> THEN g
  ELSE MountLoop(NameStep(g, comps[Len(comps)]), SubSeq(comps, 1, Len(comps) - 1))

\* lines 716-745: the loop again for each mount that follow_up reaches
RECURSIVE AllMounts(_, _)
AllMounts(g, mounts) ==
  IF g.rv # "OK" \/ mounts = << >> THEN g
  ELSE AllMounts(MountLoop(g, Head(mounts)), Tail(mounts))

\* redirfs_get_filename: result [rv, buf]
redirfs_get_filename(mounts, size) ==
  LET blank == [i \in 1..size |-> "?"]
      g0 == [buf |-> [blank EXCEPT ![size] = "NUL"], end |-> size - 1,
             size |-> size - 1, rv |-> "OK"]
      g1 == AllMounts(g0, mounts)
      g2 == IF g1.buf[g1.end + 1] = "/" THEN g1
            ELSE IF g1.end - 1 < 0 THEN [g1 EXCEPT !.rv = "overflow"]
            ELSE [g1 EXCEPT !.buf[g1.end] = "/", !.end = @ - 1, !.size = @ - 1]
      n == size - g2.size
  IN IF size < 2 THEN [rv |-> "ENAMETOOLONG", buf |-> blank]
     ELSE IF g1.rv # "OK" THEN [rv |-> g1.rv, buf |-> g1.buf]
     ELSE IF g2.rv # "OK" THEN [rv |-> g2.rv, buf |-> g2.buf]
     ELSE [rv |-> "OK",
           buf |-> [i \in 1..size |-> IF i <= n THEN g2.buf[g2.end + i] ELSE g2.buf[i]]]

redirfs_get_filename_call(t, mounts, size) ==
  /\ bug = "none" /\ pc[t] = "idle"
  /\ LET r == redirfs_get_filename(mounts, size)
     IN /\ loc' = [loc EXCEPT ![t] =
             [NoLoc EXCEPT !.op = "get_filename", !.names = mounts, !.i = size,
                           !.rv = r.rv, !.buf = r.buf]]
        /\ bug' = IF r.rv = "overflow" THEN "overflow" ELSE bug
  /\ Goto(t, "gfn_return")
  /\ UNCHANGED <<regvars, held, rfs_path_mutex, s_vfs_rename_mutex, ren>>

redirfs_get_filename_return(t) ==
  /\ bug = "none" /\ pc[t] = "gfn_return"
  /\ loc' = Returned(t, "idle")
  /\ Goto(t, "idle")
  /\ UNCHANGED <<regvars, held, rfs_path_mutex, s_vfs_rename_mutex, ren, bug>>

\* -------------------------------------------------- redirfs_get_path_id
\* rfs_path_find_id without any lock: the scan of the list, then
\* rfs_path_get on what the scan found
redirfs_get_path_id_scan(t, id) ==
  /\ bug = "none" /\ pc[t] = "idle"
  /\ LET found == PathWithId(Reg, id)
     IN IF found = 0
          THEN /\ loc' = [loc EXCEPT ![t] = [NoLoc EXCEPT !.rv = "NULL"]]
               /\ pc' = pc
          ELSE /\ loc' = [loc EXCEPT ![t] = [NoLoc EXCEPT !.op = "get_path_id", !.path = found,
                                                          !.outer = "scan"]]
               /\ Goto(t, "gid_get")
  /\ UNCHANGED <<regvars, held, rfs_path_mutex, s_vfs_rename_mutex, ren, bug>>

redirfs_get_path_id_get(t) ==
  /\ bug = "none" /\ pc[t] = "gid_get"
  /\ SetReg(rfs_path_get(Reg, loc[t].path))
  /\ held' = [held EXCEPT ![loc[t].path] = @ + 1]
  /\ loc' = [loc EXCEPT ![t] = [NoLoc EXCEPT !.rv = "OK"]]
  /\ Goto(t, "idle")
  /\ UNCHANGED <<rfs_path_mutex, s_vfs_rename_mutex, ren>>

\* ---------------------------------------------------------- rfs_fsrename
\* What the rename reads from the cache collaborators: rfs_inode_find(new_dir)
\* and rfs_dentry_find(old_dentry) give "null" (no record), "none" (a record
\* whose rinfo has no chain and no root) or a root r (the record shares root
\* r's rinfo); rootchain[r] is rroot->rinfo->rchain; isroot says whether
\* rroot_src->dentry is the moved dentry.  A rename reads at most two roots.
Roots == {"r1", "r2"}

RenInputs ==
  [rinode : {"null", "none"} \cup Roots, rdentry : {"null", "none"} \cup Roots,
   isroot : BOOLEAN, rootchain : [Roots -> Chains]]

RenErrs == {"ENOMEM", "EIO"}

\* the one step of a phase that fails, if any: the at-th filter's chain
\* allocation ("chain"), its rfs_info_alloc ("alloc"), its cache call ("call"),
\* its root walk ("walk"), the diff of the phase ("diff") or the final reset
\* ("reset")
NoFail == [at |-> 0, kind |-> "none", err |-> "OK"]

RenFails ==
  {NoFail}
    \cup [at : 1..NFlt, kind : {"call", "walk"}, err : RenErrs]
    \cup [at : 1..NFlt, kind : {"chain", "alloc"}, err : {"ENOMEM"}]
    \cup [at : {1}, kind : {"diff"}, err : {"ENOMEM"}]
    \cup [at : {1}, kind : {"reset"}, err : RenErrs]

ChainOf(r, root) == IF root \in Roots THEN r.rootchain[root] ELSE << >>

RECURSIVE RemPrefix(_, _, _)
RemPrefix(ch, fl, i) ==
  IF i = 0 THEN ch ELSE rfs_chain_rem(RemPrefix(ch, fl, i - 1), fl[i])

RECURSIVE AddPrefix(_, _, _)
AddPrefix(ch, fl, i) ==
  IF i = 0 THEN ch ELSE rfs_chain_add(AddPrefix(ch, fl, i - 1), fl[i])

\* A loop over the filters fl making one cache call per filter, given the
\* failing step: the number of calls made, the result of each, and the value
\* returned
LoopCalls(fl, fail) ==
  LET n == Len(fl)
      stop == fail.at \in 1..n /\ fail.kind \in {"chain", "alloc", "call"}
      made == IF ~stop THEN n ELSE IF fail.kind = "call" THEN fail.at ELSE fail.at - 1
  IN [made |-> made,
      err |-> [i \in 1..made |->
                 IF stop /\ fail.kind = "call" /\ i = fail.at THEN fail.err ELSE "OK"],
      rv |-> IF stop THEN fail.err ELSE "OK"]

\* the chain the cache holds for the moved dentry after these calls: each
\* successful rfs_info_rem/add/reset installs the rinfo it was given
ChainAfter(dch, calls) ==
  LET ok == {i \in 1..Len(calls) : calls[i].err = "OK"
                                   /\ calls[i].op \in {"rfs_info_rem", "rfs_info_add", "rfs_info_reset"}}
  IN IF ok = {} THEN dch
     ELSE calls[CHOOSE i \in ok : \A j \in ok : j <= i].chain

\* rfs_fsrename_rem_rroot: per filter rfs_root_rem_flt, then the root walk
rfs_fsrename_rem_rroot(root, rchain, fail) ==
  LET n == Len(rchain)
      stop == fail.at \in 1..n /\ fail.kind \in {"call", "walk"}
      made == IF ~stop THEN 2 * n
              ELSE IF fail.kind = "call" THEN 2 * fail.at - 1 ELSE 2 * fail.at
  IN [calls |-> [j \in 1..made |->
                   Call(IF j % 2 = 1 THEN "rfs_root_rem_flt" ELSE "rfs_root_walk_rem",
                        root, << >>, rchain[(j + 1) \div 2],
                        IF stop /\ j = made THEN fail.err ELSE "OK")],
      rv |-> IF stop THEN fail.err ELSE "OK"]

\* an rfs_fsrename_rem_dentry whose i-th rfs_info_rem is given the chain as
\* it was before the i-th filter was taken out: C27 fails against it
rfs_fsrename_rem_dentry_stale(root, rootch, rchain, fail) ==
  LET l == LoopCalls(rchain, fail)
  IN [calls |-> [i \in 1..l.made |->
                   Call("rfs_info_rem", root, RemPrefix(rootch, rchain, i - 1), rchain[i], l.err[i])],
      rv |-> l.rv]

\* rfs_fsrename_rem_dentry: the i-th rfs_info_rem is given the root's chain
\* less the first i filters of rchain
rfs_fsrename_rem_dentry(root, rootch, rchain, fail) ==
  LET l == LoopCalls(rchain, fail)
  IN [calls |-> [i \in 1..l.made |->
                   Call("rfs_info_rem", root, RemPrefix(rootch, rchain, i), rchain[i], l.err[i])],
      rv |-> l.rv]

\* a remove phase that detaches nothing: C30 fails against it
rfs_fsrename_rem_nothing(r, fail) == [calls |-> << >>, rv |-> "OK"]

\* rfs_fsrename_rem; result [calls, rv]
rfs_fsrename_rem(r, fail) ==
  LET srcch == ChainOf(r, r.src)
      rchain == IF r.dst = "NULL" THEN srcch ELSE rfs_chain_diff(srcch, ChainOf(r, r.dst))
  IN IF r.src = "NULL" THEN [calls |-> << >>, rv |-> "OK"]
     ELSE IF r.dst # "NULL" /\ fail.kind = "diff" THEN [calls |-> << >>, rv |-> "ENOMEM"]
     ELSE IF r.isroot THEN rfs_fsrename_rem_rroot(r.src, rchain, fail)
     ELSE rfs_fsrename_rem_dentry(r.src, srcch, rchain, fail)

\* rfs_fsrename_set: the filters of the dentry's chain that the destination
\* chain holds, each set with an rinfo of (rroot_dst, the dentry's chain);
\* result [calls, rv]
rfs_fsrename_set(r, fail) ==
  LET dstch == ChainOf(r, r.dst)
      shared == SelectSeq(r.dch, LAMBDA x : rfs_chain_find(dstch, x) # -1)
  IN IF r.src = "NULL" \/ r.dst = "NULL" THEN [calls |-> << >>, rv |-> "OK"]
     ELSE IF r.isroot THEN [calls |-> << >>, rv |-> "OK"]
     ELSE IF r.rdentry = "null" THEN [calls |-> << >>, rv |-> "OK"]
     ELSE LET l == LoopCalls(shared, [fail EXCEPT !.kind = IF @ = "chain" THEN "none" ELSE @])
          IN [calls |-> [i \in 1..l.made |->
                           Call("rfs_info_set", r.dst, r.dch, shared[i], l.err[i])],
              rv |-> l.rv]

\* rfs_fsrename_add_rroot: per filter rfs_root_add_flt, then the root walk
rfs_fsrename_add_rroot(root, rchain, fail) ==
  LET n == Len(rchain)
      stop == fail.at \in 1..n /\ fail.kind \in {"call", "walk"}
      made == IF ~stop THEN 2 * n
              ELSE IF fail.kind = "call" THEN 2 * fail.at - 1 ELSE 2 * fail.at
  IN [calls |-> [j \in 1..made |->
                   Call(IF j % 2 = 1 THEN "rfs_root_add_flt" ELSE "rfs_root_walk_add",
                        root, << >>, rchain[(j + 1) \div 2],
                        IF stop /\ j = made THEN fail.err ELSE "OK")],
      rv |-> IF stop THEN fail.err ELSE "OK"]

\* an rfs_fsrename_add_dentry that resets only when it had no filter to add:
\* C28 fails against it
rfs_fsrename_add_dentry_noreset(root, rootch, dch, rchain, fail) ==
  LET l == LoopCalls(rchain, fail)
      loop == [calls |-> [i \in 1..l.made |->
                            Call("rfs_info_add", root, AddPrefix(dch, rchain, i), rchain[i], l.err[i])],
               rv |-> l.rv]
      reset == Call("rfs_info_reset", root, rootch, 0,
                    IF fail.kind = "reset" THEN fail.err ELSE "OK")
  IN IF rchain # << >> THEN loop
     ELSE [calls |-> <<reset>>, rv |-> reset.err]

\* rfs_fsrename_add_dentry: with no filter to add, the reset alone; else the
\* i-th rfs_info_add is given the dentry's chain plus the first i filters,
\* and the reset follows the last one
rfs_fsrename_add_dentry(root, rootch, dch, rchain, fail) ==
  LET l == LoopCalls(rchain, fail)
      loop == [calls |-> [i \in 1..l.made |->
                            Call("rfs_info_add", root, AddPrefix(dch, rchain, i), rchain[i], l.err[i])],
               rv |-> l.rv]
      reset == Call("rfs_info_reset", root, rootch, 0,
                    IF fail.kind = "reset" THEN fail.err ELSE "OK")
  IN IF loop.rv # "OK" THEN loop
     ELSE [calls |-> Append(loop.calls, reset), rv |-> reset.err]

\* an add phase that resets the moved dentry when there is no destination
\* root: C4 fails against it
rfs_fsrename_add_resets(r, fail) ==
  LET dstch == ChainOf(r, r.dst)
      rchain == IF r.src = "NULL" THEN dstch ELSE rfs_chain_diff(dstch, ChainOf(r, r.src))
  IN IF r.dst = "NULL"
       THEN [calls |-> <<Call("rfs_info_reset", "NULL", << >>, 0, "OK")>>, rv |-> "OK"]
     ELSE IF r.src # "NULL" /\ fail.kind = "diff" THEN [calls |-> << >>, rv |-> "ENOMEM"]
     ELSE IF r.src # "NULL" /\ r.isroot THEN rfs_fsrename_add_rroot(r.src, rchain, fail)
     ELSE rfs_fsrename_add_dentry(r.dst, dstch, IF r.rdentry = "null" THEN << >> ELSE r.dch,
                                  rchain, fail)

\* rfs_fsrename_add; result [calls, rv]
rfs_fsrename_add(r, fail) ==
  LET dstch == ChainOf(r, r.dst)
      rchain == IF r.src = "NULL" THEN dstch ELSE rfs_chain_diff(dstch, ChainOf(r, r.src))
  IN IF r.dst = "NULL" THEN [calls |-> << >>, rv |-> "OK"]
     ELSE IF r.src # "NULL" /\ fail.kind = "diff" THEN [calls |-> << >>, rv |-> "ENOMEM"]
     ELSE IF r.src # "NULL" /\ r.isroot THEN rfs_fsrename_add_rroot(r.src, rchain, fail)
     ELSE rfs_fsrename_add_dentry(r.dst, dstch, IF r.rdentry = "null" THEN << >> ELSE r.dch,
                                  rchain, fail)

\* The host's rename: a move inside one directory takes no rename mutex and
\* rfs_fsrename returns 0 at once (line 992); a move across directories
\* enters rfs_fsrename with the superblock's rename mutex held.
rfs_fsrename_call(t, sb, same_dir) ==
  /\ bug = "none" /\ pc[t] = "idle"
  /\ IF same_dir
       THEN /\ loc' = [loc EXCEPT ![t] = [NoLoc EXCEPT !.rv = "OK"]]
            /\ pc' = pc
       ELSE /\ loc' = [loc EXCEPT ![t] = [NoLoc EXCEPT !.op = "fsrename", !.sb = sb]]
            /\ Goto(t, "ren_host_lock")
  /\ UNCHANGED <<regvars, held, rfs_path_mutex, s_vfs_rename_mutex, ren, bug>>

rfs_fsrename_host_lock(t) ==
  /\ pc[t] = "ren_host_lock"
  /\ LockRename(t, "ren_host_lock", "ren_lock_path")
rfs_fsrename_lock_path(t) ==
  /\ pc[t] = "ren_lock_path"
  /\ LockPath(t, "ren_lock_path", "ren_find")
\* lines 997-1007: rinode is dereferenced unchecked
rfs_fsrename_find(t, in) ==
  /\ bug = "none" /\ pc[t] = "ren_find"
  /\ IF in.rinode = "null"
       THEN /\ bug' = "null_deref"
            /\ ren' = [ren EXCEPT ![t] =
                 [NoRen EXCEPT !.rinode = in.rinode, !.rdentry = in.rdentry,
                               !.isroot = in.isroot, !.rootchain = in.rootchain]]
            /\ UNCHANGED <<pc, loc>>
       ELSE LET dst == IF ChainOf(in, in.rinode) # << >> THEN in.rinode ELSE "NULL"
                src == IF in.rdentry # "null" /\ ChainOf(in, in.rdentry) # << >>
                       THEN in.rdentry ELSE "NULL"
            IN /\ ren' = [ren EXCEPT ![t] =
                    [rinode |-> in.rinode, rdentry |-> in.rdentry, isroot |-> in.isroot,
                     rootchain |-> in.rootchain, src |-> src, dst |-> dst,
                     dch |-> ChainOf(in, in.rdentry), calls |-> << >>]]
               /\ IF src = dst
                    THEN /\ loc' = [loc EXCEPT ![t].rv = "OK"]
                         /\ Goto(t, "ren_unlock_path")
                    ELSE /\ loc' = loc
                         /\ Goto(t, "ren_rem")
               /\ bug' = bug
  /\ UNCHANGED <<regvars, held, rfs_path_mutex, s_vfs_rename_mutex>>

\* a phase whose rfs_info_rem calls also take the filter out of every path's
\* include chain: C3 fails against it
Phase_unregisters(t, p, to) ==
  LET gone == {p.calls[i].f : i \in {j \in 1..Len(p.calls) : p.calls[j].op = "rfs_info_rem"}}
  IN /\ ren' = [ren EXCEPT ![t].calls = @ \o p.calls,
                           ![t].dch = ChainAfter(@, p.calls)]
     /\ loc' = [loc EXCEPT ![t].rv = IF p.rv # "OK" \/ to = "ren_unlock_path" THEN p.rv ELSE @]
     /\ Goto(t, IF p.rv # "OK" THEN "ren_unlock_path" ELSE to)
     /\ rpath' = [o \in Objs |->
                    [rpath[o] EXCEPT !.rinch = SelectSeq(@, LAMBDA x : x \notin gone)]]
     /\ UNCHANGED <<rfs_path_list, paths_nr, held, rfs_path_mutex, s_vfs_rename_mutex>>

\* a phase that goes on to the next one whatever it returned: C7 fails
\* against it
Phase_goes_on(t, p, to) ==
  /\ ren' = [ren EXCEPT ![t].calls = @ \o p.calls,
                        ![t].dch = ChainAfter(@, p.calls)]
  /\ loc' = [loc EXCEPT ![t].rv = IF p.rv # "OK" \/ to = "ren_unlock_path" THEN p.rv ELSE @]
  /\ Goto(t, to)
  /\ UNCHANGED <<regvars, held, rfs_path_mutex, s_vfs_rename_mutex>>

\* one phase: its calls are appended, the dentry's chain follows them, and a
\* failure leaves for the exit
Phase(t, p, to) ==
  /\ ren' = [ren EXCEPT ![t].calls = @ \o p.calls,
                        ![t].dch = ChainAfter(@, p.calls)]
  /\ loc' = [loc EXCEPT ![t].rv = IF p.rv # "OK" \/ to = "ren_unlock_path" THEN p.rv ELSE @]
  /\ Goto(t, IF p.rv # "OK" THEN "ren_unlock_path" ELSE to)
  /\ UNCHANGED <<regvars, held, rfs_path_mutex, s_vfs_rename_mutex>>

\* a rename that runs its add phase where the remove phase belongs: C6 fails
\* against it
rfs_fsrename_rem_phase_adds(t, fail) ==
  /\ bug = "none" /\ pc[t] = "ren_rem"
  /\ Phase(t, rfs_fsrename_add(ren[t], fail), "ren_set")
  /\ bug' = bug

rfs_fsrename_rem_phase(t, fail) ==
  /\ bug = "none" /\ pc[t] = "ren_rem"
  /\ Phase(t, rfs_fsrename_rem(ren[t], fail), "ren_set")
  /\ bug' = bug

\* rfs_dentry_find after the remove phase: the record may be gone once the
\* chain is empty (gone); a record left with a NULL chain is dereferenced at
\* line 963
rfs_fsrename_set_phase(t, fail, gone) ==
  /\ bug = "none" /\ pc[t] = "ren_set"
  /\ LET r == IF gone /\ ren[t].dch = << >> THEN [ren[t] EXCEPT !.rdentry = "null"] ELSE ren[t]
     IN IF r.src # "NULL" /\ r.dst # "NULL" /\ ~r.isroot /\ r.rdentry # "null" /\ r.dch = << >>
          THEN /\ bug' = "null_deref"
               /\ UNCHANGED <<regvars, held, rfs_path_mutex, s_vfs_rename_mutex, pc, loc, ren>>
          ELSE /\ bug' = bug
               /\ Phase(t, rfs_fsrename_set(r, fail), "ren_add")

rfs_fsrename_add_phase(t, fail, gone) ==
  /\ bug = "none" /\ pc[t] = "ren_add"
  /\ LET r == IF gone /\ ren[t].dch = << >> THEN [ren[t] EXCEPT !.rdentry = "null"] ELSE ren[t]
     IN Phase(t, rfs_fsrename_add(r, fail), "ren_unlock_path")
  /\ bug' = bug

rfs_fsrename_unlock_path(t) ==
  /\ pc[t] = "ren_unlock_path"
  /\ UnlockPath(t, "ren_unlock_path", "ren_host_unlock")
rfs_fsrename_host_unlock(t) ==
  /\ pc[t] = "ren_host_unlock"
  /\ UnlockRename(t, "ren_host_unlock", "idle")
Modes == {"0", "INCLUDE", "EXCLUDE", "BOTH"}

\* ------------------------------------------------------- specifications
\* the renames the registry specifications draw from: a move out of a
\* filtered root into an unfiltered directory, a move between two roots, the
\* move of a root's own dentry, a move with no chain on either side, and a
\* new parent without a cache record
RenCases ==
  {[rinode |-> "none", rdentry |-> "r1", isroot |-> FALSE,
    rootchain |-> [x \in Roots |-> IF x = "r1" THEN <<1>> ELSE << >>]],
   [rinode |-> "r2", rdentry |-> "r1", isroot |-> FALSE,
    rootchain |-> [x \in Roots |-> IF x = "r1" THEN <<1>> ELSE <<1, 2>>]],
   [rinode |-> "r2", rdentry |-> "r1", isroot |-> TRUE,
    rootchain |-> [x \in Roots |-> IF x = "r1" THEN <<1>> ELSE <<2>>]],
   [rinode |-> "none", rdentry |-> "null", isroot |-> FALSE,
    rootchain |-> [x \in Roots |-> << >>]],
   [rinode |-> "null", rdentry |-> "r1", isroot |-> FALSE,
    rootchain |-> [x \in Roots |-> IF x = "r1" THEN <<1>> ELSE << >>]]}

RenFailCases == {NoFail, [at |-> 1, kind |-> "call", err |-> "EIO"]}

\* Spec: one caller at a time, every entry point but redirfs_get_path (the
\* references a caller holds are bounded by MaxHeld)
Caller(t) ==
  \/ \E f \in 0..NFlt, k \in 0..NKeys, m \in Modes : HandleRoom(MaxHeld) /\ redirfs_add_path_call(t, f, k, m)
  \/ redirfs_add_path_lock_rename(t)
  \/ redirfs_add_path_lock_path(t)
  \/ redirfs_add_path_find(t)
  \/ \E fail \in Fails : redirfs_add_path_new(t, fail)
  \/ \E seen \in BOOLEAN, fail \in Fails : redirfs_add_path_chain(t, seen, fail)
  \/ redirfs_add_path_unlock_path(t)
  \/ redirfs_add_path_unlock_rename(t)
  \/ \E f \in 0..NFlt, o \in 0..MaxObj : redirfs_rem_path_call(t, f, o)
  \/ redirfs_rem_path_lock_rename(t)
  \/ redirfs_rem_path_lock_path(t)
  \/ \E fail \in Fails, ub \in {"oops", "continue"} : redirfs_rem_path_body(t, fail, ub)
  \/ redirfs_rem_path_unlock_path(t)
  \/ redirfs_rem_path_unlock_rename(t)
  \/ \E o \in Objs : redirfs_put_path(t, o)
  \/ \E f \in 0..NFlt : HandleRoom(MaxHeld) /\ redirfs_get_paths_call(t, f)
  \/ redirfs_get_paths_lock_path(t)
  \/ \E fail \in Fails : redirfs_get_paths_body(t, fail)
  \/ redirfs_get_paths_unlock_path(t)
  \/ \E f \in 0..NFlt : redirfs_rem_paths_call(t, f)
  \/ \E g \in {"OK", "garbage"} : redirfs_rem_paths_loop(t, g)
  \/ redirfs_rem_paths_check(t)
  \/ redirfs_rem_paths_put(t)
  \/ \E f \in 0..NFlt, o \in 0..MaxObj, fail \in Fails : redirfs_get_path_info_call(t, f, o, fail)
  \/ redirfs_get_path_info_lock_path(t)
  \/ redirfs_get_path_info_body(t)
  \/ redirfs_get_path_info_unlock_path(t)
  \/ \E f \in 1..NFlt, size \in {0, MaxSize}, fail \in Fails : rfs_path_get_info_call(t, f, size, fail)
  \/ rfs_path_get_info_lock_path(t)
  \/ \E fail \in Fails : rfs_path_get_info_body(t, fail)
  \/ rfs_path_get_info_unlock_path(t)
  \/ \E id \in 0..MaxObj : HandleRoom(MaxHeld) /\ redirfs_get_path_id_scan(t, id)
  \/ redirfs_get_path_id_get(t)
  \/ \E sb \in 1..NSb, same \in BOOLEAN : rfs_fsrename_call(t, sb, same)
  \/ rfs_fsrename_host_lock(t)
  \/ rfs_fsrename_lock_path(t)
  \/ \E in \in RenCases : rfs_fsrename_find(t, in)
  \/ \E fail \in RenFailCases : rfs_fsrename_rem_phase(t, fail)
  \/ \E fail \in RenFailCases, gone \in BOOLEAN : rfs_fsrename_set_phase(t, fail, gone)
  \/ \E fail \in RenFailCases, gone \in BOOLEAN : rfs_fsrename_add_phase(t, fail, gone)
  \/ rfs_fsrename_unlock_path(t)
  \/ rfs_fsrename_host_unlock(t)

Next == Caller(1)

Spec == Init /\ [][Next]_vars

\* SpecConc: NThreads callers at once, over one (mnt, dentry) pair and one
\* filter
ConcFails == {"none", "chain"}

ConcCaller(t) ==
  \/ \E m \in {"INCLUDE", "EXCLUDE"} : HandleRoom(MaxHeld) /\ redirfs_add_path_call(t, 1, 1, m)
  \/ redirfs_add_path_lock_rename(t)
  \/ redirfs_add_path_lock_path(t)
  \/ redirfs_add_path_find(t)
  \/ \E fail \in ConcFails : redirfs_add_path_new(t, fail)
  \/ \E fail \in ConcFails : redirfs_add_path_chain(t, TRUE, fail)
  \/ redirfs_add_path_unlock_path(t)
  \/ redirfs_add_path_unlock_rename(t)
  \/ \E o \in Objs : redirfs_rem_path_call(t, 1, o)
  \/ redirfs_rem_path_lock_rename(t)
  \/ redirfs_rem_path_lock_path(t)
  \/ \E ub \in {"oops", "continue"} : redirfs_rem_path_body(t, "none", ub)
  \/ redirfs_rem_path_unlock_path(t)
  \/ redirfs_rem_path_unlock_rename(t)
  \/ \E o \in Objs : redirfs_put_path(t, o)
  \/ HandleRoom(MaxHeld) /\ redirfs_get_paths_call(t, 1)
  \/ redirfs_get_paths_lock_path(t)
  \/ redirfs_get_paths_body(t, "none")
  \/ redirfs_get_paths_unlock_path(t)
  \/ redirfs_rem_paths_call(t, 1)
  \/ \E g \in {"OK", "garbage"} : redirfs_rem_paths_loop(t, g)
  \/ redirfs_rem_paths_check(t)
  \/ redirfs_rem_paths_put(t)
  \/ \E o \in Objs : redirfs_get_path_info_call(t, 1, o, "none")
  \/ redirfs_get_path_info_lock_path(t)
  \/ redirfs_get_path_info_body(t)
  \/ redirfs_get_path_info_unlock_path(t)
  \/ rfs_path_get_info_call(t, 1, MaxSize, "none")
  \/ rfs_path_get_info_lock_path(t)
  \/ rfs_path_get_info_body(t, "none")
  \/ rfs_path_get_info_unlock_path(t)
  \/ HandleRoom(MaxHeldConc) /\ redirfs_get_path_id_scan(t, 0)
  \/ redirfs_get_path_id_get(t)
  \/ \E sb \in 1..NSb : rfs_fsrename_call(t, sb, FALSE)
  \/ rfs_fsrename_host_lock(t)
  \/ rfs_fsrename_lock_path(t)
  \/ \E in \in RenCases : rfs_fsrename_find(t, in)
  \/ rfs_fsrename_rem_phase(t, NoFail)
  \/ rfs_fsrename_set_phase(t, NoFail, TRUE)
  \/ rfs_fsrename_add_phase(t, NoFail, TRUE)
  \/ rfs_fsrename_unlock_path(t)
  \/ rfs_fsrename_host_unlock(t)

NextConc == \E t \in 1..NThreads : ConcCaller(t)

SpecConc == Init /\ [][NextConc]_vars

\* SpecRename: one rename after the other, over every input and every
\* failing step
NextRename ==
  \/ \E sb \in 1..NSb, same \in BOOLEAN : rfs_fsrename_call(1, sb, same)
  \/ rfs_fsrename_host_lock(1)
  \/ rfs_fsrename_lock_path(1)
  \/ \E in \in RenInputs : rfs_fsrename_find(1, in)
  \/ \E fail \in RenFails : rfs_fsrename_rem_phase(1, fail)
  \/ \E fail \in RenFails, gone \in BOOLEAN : rfs_fsrename_set_phase(1, fail, gone)
  \/ \E fail \in RenFails, gone \in BOOLEAN : rfs_fsrename_add_phase(1, fail, gone)
  \/ rfs_fsrename_unlock_path(1)
  \/ rfs_fsrename_host_unlock(1)

SpecRename == Init /\ [][NextRename]_vars

\* SpecAdd: NAdders threads, each calling redirfs_add_path once with its own
\* filter, all with the same mode and on the same (mnt, dentry) pair
AddKey == CHOOSE k \in Keys : TRUE

SameMode(m) ==
  /\ \A u \in 1..NAdders : pc[u] # "idle" => loc[u].flags = m
  /\ \A o \in Objs : rpath[o].live =>
       IF m = "INCLUDE" THEN rpath[o].rexch = << >> ELSE rpath[o].rinch = << >>

Adder(t) ==
  \/ \E m \in {"INCLUDE", "EXCLUDE"} :
       /\ loc[t].rv = "none"
       /\ SameMode(m)
       /\ redirfs_add_path_call(t, t, AddKey, m)
  \/ redirfs_add_path_lock_rename(t)
  \/ redirfs_add_path_lock_path(t)
  \/ redirfs_add_path_find(t)
  \/ \E fail \in Fails : redirfs_add_path_new(t, fail)
  \/ \E fail \in Fails : redirfs_add_path_chain(t, TRUE, fail)
  \/ redirfs_add_path_unlock_path(t)
  \/ redirfs_add_path_unlock_rename(t)

NextAdd == \E t \in 1..NAdders : Adder(t)

SpecAdd == Init /\ [][NextAdd]_vars

\* SpecIds: one caller adding and removing paths over NIdKeys (mnt, dentry)
\* pairs with one filter, keeping up to MaxHeldIds references
NextIds ==
  \/ \E k \in 1..NIdKeys : HandleRoom(MaxHeldIds) /\ redirfs_add_path_call(1, 1, k, "INCLUDE")
  \/ redirfs_add_path_lock_rename(1)
  \/ redirfs_add_path_lock_path(1)
  \/ redirfs_add_path_find(1)
  \/ redirfs_add_path_new(1, "none")
  \/ redirfs_add_path_chain(1, TRUE, "none")
  \/ redirfs_add_path_unlock_path(1)
  \/ redirfs_add_path_unlock_rename(1)
  \/ \E o \in Objs : redirfs_rem_path_call(1, 1, o)
  \/ redirfs_rem_path_lock_rename(1)
  \/ redirfs_rem_path_lock_path(1)
  \/ \E ub \in {"oops", "continue"} : redirfs_rem_path_body(1, "none", ub)
  \/ redirfs_rem_path_unlock_path(1)
  \/ redirfs_rem_path_unlock_rename(1)
  \/ \E o \in Objs : redirfs_put_path(1, o)
  \/ \E id \in 0..MaxObj : HandleRoom(MaxHeldIds) /\ redirfs_get_path_id_scan(1, id)
  \/ redirfs_get_path_id_get(1)

SpecIds == Init /\ [][NextIds]_vars

\* SpecRoot: one caller registering NFlt filters on the pairs of one root,
\* and asking for the paths of that root
RootKeys == {k \in 1..NIdKeys : DentryOf(k) = DentryOf(1)}

NextRoot ==
  \/ \E f \in Flts, k \in RootKeys, m \in {"INCLUDE", "EXCLUDE"} :
       HandleRoom(MaxHeld) /\ redirfs_add_path_call(1, f, k, m)
  \/ redirfs_add_path_lock_rename(1)
  \/ redirfs_add_path_lock_path(1)
  \/ redirfs_add_path_find(1)
  \/ redirfs_add_path_new(1, "none")
  \/ redirfs_add_path_chain(1, TRUE, "none")
  \/ redirfs_add_path_unlock_path(1)
  \/ redirfs_add_path_unlock_rename(1)
  \/ \E f \in Flts, o \in Objs : redirfs_rem_path_call(1, f, o)
  \/ redirfs_rem_path_lock_rename(1)
  \/ redirfs_rem_path_lock_path(1)
  \/ \E ub \in {"oops", "continue"} : redirfs_rem_path_body(1, "none", ub)
  \/ redirfs_rem_path_unlock_path(1)
  \/ redirfs_rem_path_unlock_rename(1)
  \/ \E o \in Objs : redirfs_put_path(1, o)
  \/ \E f \in 0..NFlt, k \in {0} \cup RootKeys, fail \in {"none", "chain"} :
       HandleRoom(MaxHeld) /\ redirfs_get_paths_root_call(1, f, k, fail)
  \/ redirfs_get_paths_root_return(1)

SpecRoot == Init /\ [][NextRoot]_vars

\* SpecInfo: one caller registering one filter on the pairs of Keys and
\* asking for its records with a buffer of every size up to MaxSize
NextInfo ==
  \/ \E k \in Keys, m \in {"INCLUDE", "EXCLUDE"} :
       HandleRoom(MaxHeld) /\ redirfs_add_path_call(1, 1, k, m)
  \/ redirfs_add_path_lock_rename(1)
  \/ redirfs_add_path_lock_path(1)
  \/ redirfs_add_path_find(1)
  \/ redirfs_add_path_new(1, "none")
  \/ redirfs_add_path_chain(1, TRUE, "none")
  \/ redirfs_add_path_unlock_path(1)
  \/ redirfs_add_path_unlock_rename(1)
  \/ \E o \in Objs : redirfs_rem_path_call(1, 1, o)
  \/ redirfs_rem_path_lock_rename(1)
  \/ redirfs_rem_path_lock_path(1)
  \/ redirfs_rem_path_body(1, "none", "oops")
  \/ redirfs_rem_path_unlock_path(1)
  \/ redirfs_rem_path_unlock_rename(1)
  \/ \E o \in Objs : redirfs_put_path(1, o)
  \/ \E size \in 0..MaxSize, fail \in {"none", "path_alloc"} : rfs_path_get_info_call(1, 1, size, fail)
  \/ rfs_path_get_info_lock_path(1)
  \/ \E fail \in {"none", "chain"} : rfs_path_get_info_body(1, fail)
  \/ rfs_path_get_info_unlock_path(1)

SpecInfo == Init /\ [][NextInfo]_vars

\* SpecName: redirfs_get_filename on every entry of MountChains with a
\* buffer of every size up to MaxBuf
NextName ==
  \/ \E mounts \in MountChains, size \in 0..MaxBuf : redirfs_get_filename_call(1, mounts, size)
  \/ redirfs_get_filename_return(1)

SpecName == Init /\ [][NextName]_vars

\* --------------------------------------------------------------- claims
InList(o) == \E i \in 1..Len(rfs_path_list) : rfs_path_list[i] = o

\* C1 (Spec): in every reachable state no filter is in both the include chain
\* and the exclude chain of a path object, whatever calls of redirfs_add_path,
\* redirfs_rem_path, redirfs_rem_paths and rfs_fsrename came before.
C1_NoFilterInBothChains ==
  \A o \in Objs : rpath[o].live =>
    \A f \in Flts : ~(InChain(rpath[o].rinch, f) /\ InChain(rpath[o].rexch, f))

\* C1, its case: a redirfs_add_path in exclude mode has just been refused
\* with EEXIST on a registered path that includes the filter.
C1_Witness ==
  /\ pc[1] = "add_unlock_path" /\ loc[1].rv = "EEXIST" /\ loc[1].flags = "EXCLUDE"
  /\ InList(loc[1].path) /\ InChain(rpath[loc[1].path].rinch, loc[1].f)

AddersDone == \A t \in 1..NAdders : pc[t] = "idle" /\ loc[t].rv = "OK"

PathsOfKey(k) == {o \in Objs : InList(o) /\ rpath[o].key = k}

\* ch holds each of the adders' filters exactly once and nothing else
AllAddersOnce(ch) ==
  /\ Len(ch) = NAdders
  /\ \A f \in 1..NAdders : Cardinality({i \in 1..Len(ch) : ch[i] = f}) = 1

\* C2 (SpecAdd): NAdders threads call redirfs_add_path at once, each with its
\* own filter, all with the same mode and the same (mnt, dentry).  Once every
\* call has returned a path (none was refused for lack of memory), the list
\* holds exactly one path for the pair, the chain of the mode holds the
\* NAdders filters once each and the other chain is empty; and a call that has
\* done its chain update finds its filter in the chain of its mode.
C2_ConcurrentAddsOnePath ==
  /\ AddersDone =>
       /\ Cardinality(PathsOfKey(AddKey)) = 1
       /\ \A o \in PathsOfKey(AddKey) :
            \/ AllAddersOnce(rpath[o].rinch) /\ rpath[o].rexch = << >>
            \/ AllAddersOnce(rpath[o].rexch) /\ rpath[o].rinch = << >>
  /\ \A t \in 1..NAdders :
       (pc[t] \in {"add_unlock_path", "add_unlock_rename"} /\ loc[t].rv = "OK") =>
         /\ PathsOfKey(AddKey) = {loc[t].ret}
         /\ InChain(IF loc[t].flags = "INCLUDE" THEN rpath[loc[t].ret].rinch
                    ELSE rpath[loc[t].ret].rexch, t)

\* C2, its case: every adder has returned its path and the include chain has
\* NAdders filters.
C2_Witness ==
  /\ AddersDone
  /\ \E o \in PathsOfKey(AddKey) : Len(rpath[o].rinch) = NAdders /\ held[o] = NAdders

RenPcs ==
  {"ren_host_lock", "ren_lock_path", "ren_find", "ren_rem", "ren_set", "ren_add",
   "ren_unlock_path", "ren_host_unlock"}

\* a step of thread t's rfs_fsrename
RenameStep(t) ==
  \/ pc[t] = "idle" /\ pc'[t] = "ren_host_lock"
  \/ pc[t] \in RenPcs /\ <<pc[t], ren[t], bug>>' # <<pc[t], ren[t], bug>>

\* C3 (Spec): no step of rfs_fsrename, in a rename that succeeds or in one
\* that fails, changes the list of paths, a path's include or exclude chain,
\* id or reference count, or a filter's paths_nr: what was registered on the
\* moved dentry's path stays registered, in the same mode.
C3_RenameLeavesRegistry ==
  [][(\E t \in Threads : RenameStep(t)) => UNCHANGED regvars]_vars

\* C3, its case: a rename has detached a filter from the moved dentry while a
\* registered path includes that filter.
C3_Witness ==
  /\ pc[1] = "ren_unlock_path"
  /\ \E i \in 1..Len(ren[1].calls), o \in Objs :
       /\ ren[1].calls[i].op = "rfs_info_rem"
       /\ InList(o) /\ InChain(rpath[o].rinch, ren[1].calls[i].f)

\* a rename of a dentry with a chain under a parent without one has run its
\* three phases and succeeded
MovedOut(t) ==
  /\ pc[t] = "ren_unlock_path" /\ loc[t].rv = "OK"
  /\ ren[t].src # "NULL" /\ ren[t].dst = "NULL"

OpsOf(t) == {ren[t].calls[i].op : i \in 1..Len(ren[t].calls)}

\* C4 as stated (SpecRename): a dentry with a chain moved under a parent
\* without a chain gets an rfs_info_reset.
C4_ResetIssued ==
  \A t \in Threads : MovedOut(t) => "rfs_info_reset" \in OpsOf(t)

\* C4 as the code has it (SpecRename): such a rename makes no rfs_info_reset,
\* rfs_info_set or rfs_info_add call and adds no filter to a root.  When the
\* moved dentry is not its root's own dentry, the remove phase makes one
\* rfs_info_rem per filter of the source root's chain, in chain order, each
\* with the chain less the filters removed so far, so the last one is given
\* the empty chain; when it is the root's own dentry, the remove phase takes
\* each filter off the root and walks the roots.
C4_DetachOnly ==
  \A t \in Threads : MovedOut(t) =>
    LET srcch == ren[t].rootchain[ren[t].src]
        calls == ren[t].calls
    IN /\ OpsOf(t) \cap {"rfs_info_reset", "rfs_info_set", "rfs_info_add",
                         "rfs_root_add_flt", "rfs_root_walk_add"} = {}
       /\ ~ren[t].isroot =>
            /\ Len(calls) = Len(srcch)
            /\ \A i \in 1..Len(calls) :
                 /\ calls[i].op = "rfs_info_rem" /\ calls[i].f = srcch[i]
                 /\ calls[i].chain = SubSeq(srcch, i + 1, Len(srcch))
       /\ ren[t].isroot =>
            /\ Len(calls) = 2 * Len(srcch)
            /\ \A i \in 1..Len(srcch) :
                 /\ calls[2 * i - 1].op = "rfs_root_rem_flt" /\ calls[2 * i - 1].f = srcch[i]
                 /\ calls[2 * i].op = "rfs_root_walk_rem" /\ calls[2 * i].f = srcch[i]

\* C4, its case: a dentry sharing a two-filter chain has been moved under a
\* parent without a chain.
C4_Witness ==
  MovedOut(1) /\ ~ren[1].isroot /\ Len(ren[1].calls) = 2

\* the roots rfs_fsrename works with, as lines 1000-1004 derive them from
\* the cache records; a missing record carries no chain
DstRootOf(r) ==
  IF r.rinode \in Roots /\ r.rootchain[r.rinode] # << >> THEN r.rinode ELSE "NULL"

SrcRootOf(r) ==
  IF r.rdentry \in Roots /\ r.rootchain[r.rdentry] # << >> THEN r.rdentry ELSE "NULL"

\* thread t's rename has looked up its cache records
Looked(t) ==
  \/ pc[t] \in {"ren_rem", "ren_set", "ren_add", "ren_unlock_path", "ren_host_unlock"}
  \/ pc[t] = "ren_find" /\ bug # "none"

\* C5 as stated (SpecRename): whenever the source root and the destination
\* root are the same, both being none included and a new parent without any
\* cache record included, rfs_fsrename makes no cache call and returns 0.
C5_SameRootNoOp ==
  \A t \in Threads :
    (Looked(t) /\ SrcRootOf(ren[t]) = DstRootOf(ren[t])) =>
      /\ bug = "none"
      /\ ren[t].calls = << >>
      /\ pc[t] \in {"ren_unlock_path", "ren_host_unlock"}
      /\ loc[t].rv = "OK"

\* the phase a cache call belongs to
Rank(op) ==
  IF op \in {"rfs_info_rem", "rfs_root_rem_flt", "rfs_root_walk_rem"} THEN 1
  ELSE IF op = "rfs_info_set" THEN 2
  ELSE 3

\* C6 (SpecRename): within one rfs_fsrename the calls come in phase order:
\* every call of the remove phase before the first rfs_info_set, every
\* rfs_info_set before the first call of the add phase (rfs_info_add,
\* rfs_info_reset, rfs_root_add_flt and its walk); no call has been made when
\* the remove phase starts, only remove calls when the set phase starts, and
\* no add call when the add phase starts.
C6_PhaseOrder ==
  \A t \in Threads :
    LET calls == ren[t].calls
    IN /\ \A i, j \in 1..Len(calls) : i < j => Rank(calls[i].op) <= Rank(calls[j].op)
       /\ pc[t] = "ren_rem" => calls = << >>
       /\ pc[t] = "ren_set" => \A i \in 1..Len(calls) : Rank(calls[i].op) = 1
       /\ pc[t] = "ren_add" => \A i \in 1..Len(calls) : Rank(calls[i].op) <= 2

\* C6, its case: one rename has made a remove call, a set call and a call of
\* the add phase.
C6_Witness ==
  \E i, j, k \in 1..Len(ren[1].calls) :
    /\ Rank(ren[1].calls[i].op) = 1
    /\ Rank(ren[1].calls[j].op) = 2
    /\ Rank(ren[1].calls[k].op) = 3

\* C7 (SpecRename): a cache call of rfs_fsrename that fails is the last call
\* of the rename (none follows in its phase, no later phase runs, nothing is
\* undone), the rename is then on its way out and returns that call's error;
\* a later phase starts only when no call before it failed.
C7_FailureAborts ==
  \A t \in Threads :
    LET calls == ren[t].calls
    IN /\ pc[t] \in {"ren_set", "ren_add"} => \A i \in 1..Len(calls) : calls[i].err = "OK"
       /\ \A i \in 1..Len(calls) : calls[i].err # "OK" =>
            /\ i = Len(calls)
            /\ pc[t] \in {"ren_unlock_path", "ren_host_unlock"}
            /\ loc[t].rv = calls[i].err

\* C7, its case: after a successful rfs_info_rem the rfs_info_set of the
\* set phase failed with EIO; the rename returns EIO, the detach stays, and
\* the add phase, which had a reset to make, has not run.
C7_Witness ==
  /\ pc[1] = "ren_unlock_path" /\ loc[1].rv = "EIO"
  /\ Len(ren[1].calls) = 2
  /\ ren[1].calls[1].op = "rfs_info_rem" /\ ren[1].calls[1].err = "OK"
  /\ ren[1].calls[2].op = "rfs_info_set" /\ ren[1].calls[2].err = "EIO"

\* thread t is between the start of its remove phase and the end of its add
\* phase
InPhases(t) == pc[t] \in {"ren_rem", "ren_set", "ren_add"}

\* thread u's next step is a step of redirfs_add_path, redirfs_rem_path,
\* redirfs_get_paths, rfs_path_get_info or rfs_fsrename that reads or writes
\* the registry or the cache
AtRegistryStep(u) ==
  pc[u] \in {"add_find", "add_new", "add_chain", "rem_body", "gps_body", "info_body",
             "ren_find", "ren_rem", "ren_set", "ren_add"}

WaitsForPath(u) ==
  pc[u] \in {"add_lock_path", "rem_lock_path", "gps_lock_path", "gpi_lock_path",
             "info_lock_path", "ren_lock_path"}

\* C8 (SpecConc): while one rfs_fsrename is between the start of its remove
\* phase and the end of its add phase, no other thread is at a step of
\* redirfs_add_path, redirfs_rem_path, redirfs_get_paths, rfs_path_get_info
\* or rfs_fsrename that reads or writes the registry: none of them runs
\* between two phases.
C8_PhasesAtomic ==
  \A t, u \in Threads : (t # u /\ InPhases(t)) => ~AtRegistryStep(u)

\* C8, its case: a rename has made its remove calls and not yet its add
\* calls while another thread waits for the registry mutex.
C8_Witness ==
  \E t, u \in Threads :
    /\ t # u /\ pc[t] = "ren_set" /\ ren[t].calls # << >>
    /\ WaitsForPath(u)

WaitsForRename(t) == pc[t] \in {"add_lock_rename", "rem_lock_rename", "ren_host_lock"}

\* C9 (SpecConc): no thread asks for a rename mutex while it holds the
\* registry mutex, and whatever redirfs_add_path, redirfs_rem_path,
\* redirfs_rem_paths, redirfs_get_paths, redirfs_get_path_info and
\* rfs_fsrename calls are under way, one of the threads inside a call can
\* take its next step: there is no deadlock.
C9_NoDeadlock ==
  /\ \A t \in Threads : WaitsForRename(t) => rfs_path_mutex # t
  /\ (bug = "none" /\ Running # {}) => \E t \in Running : ENABLED ConcCaller(t)

\* C9, its case: one thread holds a rename mutex and waits for the registry
\* mutex, which the other holds while it works.
C9_Witness ==
  \E t, u \in Threads :
    /\ t # u /\ pc[t] \in {"add_lock_path", "rem_lock_path", "ren_lock_path"}
    /\ s_vfs_rename_mutex[loc[t].sb] = t
    /\ rfs_path_mutex = u /\ pc[u] = "rem_body"

\* C10 as stated (SpecConc): redirfs_get_path_id takes its reference on a
\* path that is still in the list and still allocated, as a scan and a
\* reference taken under the registry mutex would guarantee.
C10_ScanUnderLock ==
  \A t \in Threads :
    pc[t] = "gid_get" => InList(loc[t].path) /\ rpath[loc[t].path].live

\* the ids of the registered paths
ListIds == {rpath[rfs_path_list[i]].id : i \in 1..Len(rfs_path_list)}

\* the smallest non-negative integer that is no registered path's id
MinUnusedId == CHOOSE i \in 0..(MaxObj + 1) : i \notin ListIds /\ \A j \in 0..(i - 1) : j \in ListIds

\* thread t's redirfs_add_path creates a path in this step
Creates(t) == pc[t] = "add_new" /\ pc'[t] = "add_chain"

\* C11 as stated (SpecIds): a newly created path gets the smallest
\* non-negative integer that is not the id of a registered path, whatever
\* the order of the list.
C11_SmallestUnusedId ==
  [][\A t \in Threads : Creates(t) => rpath'[loc'[t].path].id = MinUnusedId]_vars

\* a path taken off the list whose reference the caller still holds
Removed(o) == rpath[o].live /\ ~InList(o) /\ held[o] > 0

\* o is the one removed path still held, and its id is below every
\* registered id: it had the smallest id
RemovedSmallest(o) ==
  /\ Removed(o) /\ \A q \in Objs : Removed(q) => q = o
  /\ \A i \in ListIds : rpath[o].id < i

\* C12 as stated (SpecIds): once the path with the smallest id has been
\* removed, the next redirfs_add_path that creates a path gives it that id.
C12_ReusesRemovedId ==
  [][\A t \in Threads, o \in Objs :
       (Creates(t) /\ RemovedSmallest(o)) => rpath'[loc'[t].path].id = rpath[o].id]_vars

\* C12 as the code has it (SpecIds): once the path with the smallest id has
\* been removed, the next redirfs_add_path that creates a path gives it id 0,
\* which is the removed path's id exactly when that id was 0.
C12_ReusesZero ==
  [][\A t \in Threads, o \in Objs :
       (Creates(t) /\ RemovedSmallest(o)) => rpath'[loc'[t].path].id = 0]_vars

\* C12, its case: the path with id 0 has been removed, a path with id 1 is
\* still registered, and a new path has just been created with id 0.
C12_Witness ==
  /\ pc[1] = "add_chain" /\ rpath[loc[1].path].id = 0
  /\ rpath[loc[1].path].rinch = << >> /\ InList(loc[1].path)
  /\ 1 \in ListIds
  /\ \E o \in Objs : Removed(o) /\ rpath[o].id = 0

\* the registered paths that cite filter f in either chain
Citing(f) ==
  {o \in Objs : InList(o) /\ (InChain(rpath[o].rinch, f) \/ InChain(rpath[o].rexch, f))}

\* C13 (Spec): whenever the registry mutex is free, every filter's paths_nr
\* is the number of registered paths with the filter in their include or
\* exclude chain, whatever calls came before, failed ones included.
C13_PathsNrCounts ==
  rfs_path_mutex = 0 => \A f \in Flts : paths_nr[f] = Cardinality(Citing(f))

\* C13, its case: a filter is cited by two registered paths after a
\* redirfs_rem_path failed.
C13_Witness ==
  /\ rfs_path_mutex = 0 /\ pc[1] = "rem_unlock_rename" /\ loc[1].rv = "ENOMEM"
  /\ \E f \in Flts : paths_nr[f] = 2

HasChain(o) == rpath[o].rinch # << >> \/ rpath[o].rexch # << >>

\* C14 (Spec): whenever the registry mutex is free, an allocated path is on
\* the list exactly when one of its chains is not empty, and exactly then it
\* has its root: the call that empties the last chain takes the path off the
\* list before it releases the mutex, and a path created by a failing
\* redirfs_add_path is not left on the list.
C14_RegisteredIffChain ==
  rfs_path_mutex = 0 =>
    \A o \in Objs : rpath[o].live =>
      /\ InList(o) <=> HasChain(o)
      /\ InList(o) <=> rpath[o].rroot

\* C14, its case: a redirfs_rem_path has emptied the last chain of a path and
\* returned; the caller still holds the path, which is off the list.
C14_Witness ==
  /\ rfs_path_mutex = 0 /\ pc[1] = "rem_unlock_rename" /\ loc[1].rv = "OK"
  /\ Removed(loc[1].path) /\ rfs_path_list # << >>

\* C15 as stated (Spec): the list's reference is dropped exactly once, so a
\* path is never freed while a caller holds a reference to it, whatever the
\* calls, repeated redirfs_rem_path on the same path included.
C15_NeverFreedWhileHeld ==
  \A o \in Objs : held[o] > 0 => rpath[o].live

\* thread t's redirfs_rem_path runs lines 396-405 in this step, with its
\* filter in neither chain of its path
RemOfStranger(t) ==
  /\ pc[t] = "rem_body" /\ pc'[t] = "rem_unlock_path"
  /\ ~InChain(rpath[loc[t].path].rinch, loc[t].f)
  /\ ~InChain(rpath[loc[t].path].rexch, loc[t].f)

\* C16 as stated (Spec): redirfs_rem_path with a filter that is in neither
\* chain of the path returns EINVAL and leaves the list, the chains,
\* paths_nr, the root and the reference count as they were, also when the
\* path is a held reference to a path an earlier redirfs_rem_path removed.
C16_StrangerLeavesAll ==
  [][\A t \in Threads :
       RemOfStranger(t) => /\ loc'[t].rv = "EINVAL"
                           /\ UNCHANGED regvars
                           /\ bug' = "none"]_vars

\* thread t's redirfs_add_path runs lines 355-369 in this step
AddChainStep(t) == pc[t] = "add_chain" /\ pc'[t] = "add_unlock_path"

\* the filter of thread t's redirfs_add_path is in the chain opposite to the
\* mode asked for
OnOpposite(t) ==
  \/ loc[t].flags = "INCLUDE" /\ InChain(rpath[loc[t].path].rexch, loc[t].f)
  \/ loc[t].flags = "EXCLUDE" /\ InChain(rpath[loc[t].path].rinch, loc[t].f)

\* the paths as they are but for one reference to path o given back
LessOneRef(o) == [rpath EXCEPT ![o].count = @ - 1]

\* C17 (Spec): redirfs_add_path of a filter in one mode on a path that has
\* the filter in the chain of the other mode returns EEXIST, in both
\* directions, and leaves the chains, paths_nr and the list as they were; the
\* reference rfs_path_find took is given back.
C17_OppositeRefused ==
  [][\A t \in Threads :
       (AddChainStep(t) /\ OnOpposite(t)) =>
          /\ loc'[t].rv = "EEXIST" /\ loc'[t].ret = 0
          /\ rfs_path_list' = rfs_path_list /\ paths_nr' = paths_nr
          /\ rpath' = LessOneRef(loc[t].path)
          /\ held' = held]_vars

\* C17, its case: a redirfs_add_path in include mode has just been refused
\* with EEXIST on a registered path that excludes the filter.
C17_Witness ==
  /\ pc[1] = "add_unlock_path" /\ loc[1].rv = "EEXIST" /\ loc[1].flags = "INCLUDE"
  /\ InList(loc[1].path) /\ InChain(rpath[loc[1].path].rexch, loc[1].f)
  /\ paths_nr[loc[1].f] = 1

\* the paths of list l that have a chain, in list order
Chained(l, rp) ==
  SelectSeq(l, LAMBDA o : rp[o].rinch # << >> \/ rp[o].rexch # << >>)

\* what is registered: the paths with a chain, each with its (mnt, dentry),
\* its id and its two chains, and every filter's paths_nr
Registered(l, rp, nr) ==
  [paths |-> [i \in 1..Len(Chained(l, rp)) |->
                LET o == Chained(l, rp)[i]
                IN [o |-> o, key |-> rp[o].key, id |-> rp[o].id,
                    rinch |-> rp[o].rinch, rexch |-> rp[o].rexch]],
   nr |-> nr]

AddPcs == {"add_find", "add_new", "add_chain"}

\* thread t's redirfs_add_path reaches its exit with an error in this step
AddFails(t) ==
  /\ pc[t] \in AddPcs /\ pc'[t] = "add_unlock_path" /\ loc'[t].rv # "OK"

\* thread t's redirfs_add_path takes a step that is not its successful end
AddNotDone(t) ==
  /\ pc[t] \in AddPcs /\ pc'[t] # pc[t]
  /\ ~(pc'[t] = "add_unlock_path" /\ loc'[t].rv = "OK")

\* C18 (Spec): a redirfs_add_path that returns an error leaves the
\* registered paths, their ids, both chains of each and every paths_nr as
\* they were before the call: the call starts with every listed path having
\* a chain, none of its steps short of success changes what is registered,
\* and at the failing exit no path without a chain is left on the list and
\* no reference is handed out.
C18_FailedAddLeavesRegistry ==
  [][\A t \in Threads :
       /\ (pc[t] = "add_find" /\ pc'[t] # pc[t]) =>
             rfs_path_list = Chained(rfs_path_list, rpath)
       /\ AddNotDone(t) =>
             Registered(rfs_path_list', rpath', paths_nr')
               = Registered(rfs_path_list, rpath, paths_nr)
       /\ AddFails(t) =>
             /\ rfs_path_list' = Chained(rfs_path_list', rpath')
             /\ loc'[t].ret = 0 /\ held' = held]_vars

\* C18, its case: a redirfs_add_path that created a path has failed at the
\* chain update (no memory, or flags that name no mode); the path it created
\* is off the list and freed, and another path is still registered.
C18_Witness ==
  /\ pc[1] = "add_unlock_path" /\ loc[1].rv \in {"ENOMEM", "EINVAL"}
  /\ loc[1].path # 0 /\ ~rpath[loc[1].path].live
  /\ rfs_path_list # << >>

\* the filter of thread t's redirfs_add_path is already in the chain of the
\* mode asked for
OnSame(t) ==
  \/ loc[t].flags = "INCLUDE" /\ InChain(rpath[loc[t].path].rinch, loc[t].f)
  \/ loc[t].flags = "EXCLUDE" /\ InChain(rpath[loc[t].path].rexch, loc[t].f)

\* how many times filter f stands in chain ch
Times(ch, f) == Cardinality({i \in DOMAIN ch : ch[i] = f})

\* C19 (Spec): a redirfs_add_path with the filter, (mnt, dentry) and mode of
\* an earlier one succeeds again and returns the same path; both chains, the
\* id, paths_nr and the list are as the first call left them, and the filter
\* stands in the chain once.
C19_SecondAddSame ==
  [][\A t \in Threads :
       (AddChainStep(t) /\ OnSame(t)) =>
          /\ loc'[t].rv = "OK" /\ loc'[t].ret = loc[t].path
          /\ rfs_path_list' = rfs_path_list /\ paths_nr' = paths_nr
          /\ rpath' = rpath
          /\ Times(rpath'[loc[t].path].rinch, loc[t].f)
               + Times(rpath'[loc[t].path].rexch, loc[t].f) = 1]_vars

\* C19, its case: a redirfs_add_path in exclude mode has succeeded on the
\* path at the head of a list of two, whose only chain entry is its filter:
\* the path was there, with that entry, before the call.
C19_Witness ==
  /\ pc[1] = "add_unlock_path" /\ loc[1].rv = "OK" /\ loc[1].flags = "EXCLUDE"
  /\ Len(rfs_path_list) = 2 /\ rfs_path_list[1] = loc[1].path
  /\ rpath[loc[1].path].rexch = <<loc[1].f>> /\ rpath[loc[1].path].rinch = << >>
  /\ paths_nr[loc[1].f] = 1 /\ held[loc[1].path] = 1

\* thread t's redirfs_rem_path has just taken its path off the list
JustRemoved(t) ==
  /\ pc[t] = "rem_unlock_path" /\ loc[t].rv = "OK"
  /\ rpath[loc[t].path].live /\ ~InList(loc[t].path)

\* C20 as stated (SpecIds): after redirfs_add_path on an unregistered (mnt,
\* dentry) and redirfs_rem_path of the same filter on the path returned, both
\* chains of the path are empty, rfs_path_find_id of its id finds nothing,
\* and the filter's paths_nr is what it was before the add.
C20_AddThenRemove ==
  \A t \in Threads : JustRemoved(t) =>
    /\ ~HasChain(loc[t].path)
    /\ PathWithId(Reg, rpath[loc[t].path].id) = 0
    /\ paths_nr[loc[t].f] = Cardinality(Citing(loc[t].f))

\* thread t's redirfs_get_paths runs lines 515-528 in this step
GetPathsStep(t) == pc[t] = "gps_body" /\ pc'[t] = "gps_unlock_path"

\* the elements of sequence q
Range(q) == {q[i] : i \in DOMAIN q}

\* the paths with one more reference on each path of set os
MoreRefs(os) ==
  [o \in Objs |-> IF o \in os THEN [rpath[o] EXCEPT !.count = @ + 1] ELSE rpath[o]]

\* C21 (Spec): a redirfs_get_paths that got its array returns exactly the
\* registered paths with the filter in their include or exclude chain, each
\* once, each with one more reference; their number does not exceed the
\* filter's paths_nr, so the scan stays inside the array of paths_nr + 1.
C21_GetPathsExact ==
  [][\A t \in Threads :
       (GetPathsStep(t) /\ loc'[t].rv = "OK") =>
          /\ bug' = "none"
          /\ Range(loc'[t].paths) = Citing(loc[t].f)
          /\ Len(loc'[t].paths) = Cardinality(Citing(loc[t].f))
          /\ Len(loc'[t].paths) <= paths_nr[loc[t].f]
          /\ rpath' = MoreRefs(Citing(loc[t].f))
          /\ rfs_path_list' = rfs_path_list /\ paths_nr' = paths_nr]_vars

\* C21, its case: a redirfs_get_paths called for itself has returned two
\* paths, one that includes the filter and one that excludes it, while a
\* third chain entry belongs to another filter.
C21_Witness ==
  /\ pc[1] = "gps_unlock_path" /\ loc[1].rv = "OK" /\ loc[1].outer = "none"
  /\ Len(loc[1].paths) = 2
  /\ \E o \in Range(loc[1].paths) : InChain(rpath[o].rexch, loc[1].f)
  /\ \E o \in Range(loc[1].paths) : InChain(rpath[o].rinch, loc[1].f)
  /\ \E o \in Objs, g \in Flts : g # loc[1].f /\ InList(o) /\ InChain(rpath[o].rinch, g)

\* thread t's redirfs_rem_paths returns in this step, its loop having run to
\* the end of the array without a failed redirfs_rem_path
RemPathsAllDone(t) ==
  /\ pc[t] = "rems_put" /\ pc'[t] = "idle"
  /\ loc[t].i > Len(loc[t].paths)

\* C22 as stated (Spec): when no single removal fails, redirfs_rem_paths
\* returns success, and afterwards no registered path cites the filter and
\* its paths_nr is 0; so too for a filter that cites no path when called.
C22_RemPathsSucceeds ==
  [][\A t \in Threads, f \in Flts :
       (RemPathsAllDone(t) /\ loc[t].f = f) =>
          /\ loc'[t].rv = "OK"
          /\ (Citing(f))' = {}
          /\ paths_nr'[f] = 0]_vars

\* thread t's redirfs_get_paths_root hands out its array in this step
GetPathsRootStep(t) ==
  /\ pc[t] = "idle" /\ pc'[t] = "gpr_return" /\ loc'[t].rv = "OK"

\* the registered paths of root d that cite filter f in a chain of their own
CitingOfRoot(f, d) == {o \in Citing(f) : DentryOf(rpath[o].key) = d}

\* C23 as stated (SpecRoot): redirfs_get_paths_root returns exactly the paths
\* of the root that have the filter in their own include or exclude chain,
\* none of them left out and no other path of the root among them.
C23_RootPathsCiting ==
  [][\A t \in Threads :
       GetPathsRootStep(t) =>
          /\ Range(loc'[t].paths) = CitingOfRoot(loc'[t].f, DentryOf(loc'[t].k))
          /\ Len(loc'[t].paths) = Cardinality(Range(loc'[t].paths))]_vars

\* the length needed for the records of all the paths citing f, each with
\* its NUL
RECURSIVE SumRec(_)
SumRec(os) ==
  IF os = {} THEN 0
  ELSE LET o == CHOOSE x \in os : TRUE IN RecLen(Reg, o) + 1 + SumRec(os \ {o})

Required(f) == SumRec(Citing(f))

\* thread t's rfs_path_get_info runs its loop in this step and does not fail
InfoStep(t) ==
  /\ pc[t] = "info_body" /\ pc'[t] = "info_unlock_path" /\ loc'[t].rv = "OK"

\* C24 as stated (SpecInfo): with a buffer too small for all the records,
\* rfs_path_get_info writes inside the buffer and returns the length all the
\* records need.
C24_ReturnsRequired ==
  [][\A t \in Threads :
       (InfoStep(t) /\ loc[t].i < Required(loc[t].f)) =>
          /\ InfoScan(Reg, 1, loc[t].f, loc[t].i, 0, 0, "none").end <= loc[t].i
          /\ loc'[t].ret = Required(loc[t].f)]_vars

\* C24 as the code has it (SpecInfo): with a buffer too small for all the
\* records, rfs_path_get_info writes inside the buffer and returns the size
\* of the buffer; it returns the length of all the records only when they
\* fit.
C24_ReturnsSize ==
  [][\A t \in Threads :
       InfoStep(t) =>
          /\ InfoScan(Reg, 1, loc[t].f, loc[t].i, 0, 0, "none").end <= loc[t].i
          /\ loc'[t].ret = IF loc[t].i < Required(loc[t].f) THEN loc[t].i
                           ELSE Required(loc[t].f)]_vars

\* C24, its case: two paths cite the filter, the buffer holds the first
\* record and part of the second, and the call has returned the buffer's
\* size.
C24_Witness ==
  /\ pc[1] = "info_unlock_path" /\ loc[1].rv = "OK"
  /\ Cardinality(Citing(loc[1].f)) = 2
  /\ loc[1].i > RecLen(Reg, rfs_path_list[1]) + 1
  /\ loc[1].i < Required(loc[1].f)
  /\ loc[1].ret = loc[1].i

\* thread t's redirfs_add_path has just published a new chain in mode m
Published(t, m) ==
  /\ pc[t] = "add_unlock_path" /\ loc[t].flags = m /\ loc[t].rv = "OK"
  /\ ren[t].calls # << >>

\* in the calls cs the cache was looked up first, the walk was made once when
\* nothing was found and not at all otherwise, and the root was given the
\* filter after that
SeededFirst(cs, push) ==
  /\ cs[1].op = "rfs_inode_find"
  /\ cs[1].err = "NULL" =>
       /\ Len(cs) = 3 /\ cs[2].op = "rfs_dcache_walk" /\ cs[2].err = "OK"
       /\ cs[3].op = push
  /\ cs[1].err = "OK" => Len(cs) = 2 /\ cs[2].op = push

\* C25 as stated (Spec): in include mode and in exclude mode alike, the
\* cache is seeded (one walk when rfs_inode_find finds no record, none when
\* it finds one) before the new chain is given to the root and published.
C25_SeededInBothModes ==
  \A t \in Threads :
    /\ Published(t, "INCLUDE") => SeededFirst(ren[t].calls, "rfs_root_add_include")
    /\ Published(t, "EXCLUDE") => SeededFirst(ren[t].calls, "rfs_root_add_exclude")

\* C25 as the code has it (Spec): in include mode the cache is seeded (one
\* walk when rfs_inode_find finds no record, none when it finds one) before
\* the new chain is given to the root and published; in exclude mode the
\* chain is given to the root and published without a lookup or a walk.
C25_SeededInIncludeMode ==
  \A t \in Threads :
    /\ Published(t, "INCLUDE") => SeededFirst(ren[t].calls, "rfs_root_add_include")
    /\ Published(t, "EXCLUDE") =>
         /\ Len(ren[t].calls) = 1
         /\ ren[t].calls[1].op = "rfs_root_add_exclude"

\* C25, its case: a redirfs_add_path in include mode found no cache record,
\* made the walk, and has published the chain with the filter in it.
C25_Witness ==
  /\ Published(1, "INCLUDE")
  /\ \E i \in 1..Len(ren[1].calls) : ren[1].calls[i].op = "rfs_dcache_walk"
  /\ InChain(rpath[loc[1].path].rinch, loc[1].f)

\* the names of one mount's part of the path, each after a slash
RECURSIVE Slashed(_)
Slashed(comps) ==
  IF comps = << >> THEN << >> ELSE <<"/">> \o Head(comps) \o Slashed(Tail(comps))

\* the parts of all the mounts, the outermost mount first
RECURSIVE FromTop(_)
FromTop(mounts) ==
  IF mounts = << >> THEN << >>
  ELSE FromTop(Tail(mounts)) \o Slashed(Head(mounts))

\* the path string of an entry: a single slash for the root of the mount
\* that has no parent, else a slash before each name
PathString(mounts) == IF FromTop(mounts) = << >> THEN <<"/">> ELSE FromTop(mounts)

\* C26 (SpecName): redirfs_get_filename gives "/" for the root of a mount
\* without parent and "/a/bc" for an entry two levels below it, one slash
\* before each name and none after; it returns ENAMETOOLONG, with nothing
\* written outside the buffer, whenever the buffer is smaller than the path
\* string and its NUL, and the string when it is not.
C26_NameOrTooLong ==
  \A t \in Threads : pc[t] = "gfn_return" =>
    LET str == PathString(loc[t].names)
    IN /\ loc[t].rv \in {"OK", "ENAMETOOLONG"} /\ bug = "none"
       /\ Len(loc[t].buf) = (IF loc[t].i > 0 THEN loc[t].i ELSE 0)
       /\ loc[t].rv = "ENAMETOOLONG" <=> loc[t].i < Len(str) + 1
       /\ loc[t].rv = "OK" => SubSeq(loc[t].buf, 1, Len(str) + 1) = str \o <<"NUL">>
       /\ loc[t].names = << << >> >> => str = <<"/">>
       /\ loc[t].names = << <<(<<"a">>), (<<"b", "c">>)>> >> =>
            str = <<"/", "a", "/", "b", "c">>

\* C26, its case: the name of an entry two levels below the root of a mount
\* that is itself mounted one level below the root of its parent, written to
\* a buffer with no byte to spare.
C26_Witness ==
  /\ pc[1] = "gfn_return" /\ loc[1].rv = "OK"
  /\ loc[1].names = << <<(<<"a">>), (<<"a">>)>>, <<(<<"b", "c">>)>> >>
  /\ loc[1].i = 8
  /\ loc[1].buf = <<"/", "b", "c", "/", "a", "/", "a", "NUL">>

\* chain a without the filters of set fs, in the order of a
Without(a, fs) == SelectSeq(a, LAMBDA x : x \notin fs)

\* C27 (SpecRename): a remove phase that succeeded detached exactly the
\* filters of the source root's chain that the destination root's chain does
\* not hold (all of them without a destination root, none without a source
\* root), in the order of the source chain; for a dentry that is not the
\* source root's own, the k-th rfs_info_rem was given the source chain less
\* the first k of these filters, each of which was in the chain it was taken
\* from.
C27_RemovePhase ==
  \A t \in Threads : pc[t] = "ren_set" =>
    LET srcch == ChainOf(ren[t], ren[t].src)
        fl == Without(srcch, Range(ChainOf(ren[t], ren[t].dst)))
        calls == ren[t].calls
    IN /\ ren[t].src = "NULL" => calls = << >>
       /\ (ren[t].src # "NULL" /\ ~ren[t].isroot) =>
            /\ Len(calls) = Len(fl)
            /\ \A k \in 1..Len(fl) :
                 /\ calls[k].op = "rfs_info_rem" /\ calls[k].err = "OK"
                 /\ calls[k].f = fl[k] /\ calls[k].root = ren[t].src
                 /\ InChain(Without(srcch, {fl[j] : j \in 1..(k - 1)}), fl[k])
                 /\ calls[k].chain = Without(srcch, {fl[j] : j \in 1..k})
       /\ (ren[t].src # "NULL" /\ ren[t].isroot) =>
            /\ Len(calls) = 2 * Len(fl)
            /\ \A k \in 1..Len(fl) :
                 /\ calls[2 * k - 1].op = "rfs_root_rem_flt" /\ calls[2 * k - 1].f = fl[k]
                 /\ calls[2 * k].op = "rfs_root_walk_rem" /\ calls[2 * k].f = fl[k]

\* C27, its case: the source chain has two filters, the destination chain
\* one of them; the remove phase has made one rfs_info_rem, for the other
\* filter, with the shared filter as the chain that stays.
C27_Witness ==
  /\ pc[1] = "ren_set" /\ ~ren[1].isroot
  /\ ren[1].src # "NULL" /\ ren[1].dst # "NULL"
  /\ Len(ChainOf(ren[1], ren[1].src)) = 2
  /\ Len(ren[1].calls) = 1
  /\ ren[1].calls[1].chain = ChainOf(ren[1], ren[1].dst)

\* thread t's rfs_fsrename runs its add phase in this step, with success,
\* for a dentry that is not the source root's own and with a destination root
AddPhaseAtEntry(t) ==
  /\ pc[t] = "ren_add" /\ pc'[t] = "ren_unlock_path" /\ loc'[t].rv = "OK"
  /\ ren[t].dst # "NULL"
  /\ ~(ren[t].src # "NULL" /\ ren[t].isroot)

\* C28 (SpecRename): such an add phase attaches exactly the filters of the
\* destination root's chain that the source root's chain does not hold, in
\* the order of the destination chain, the i-th rfs_info_add being given the
\* dentry's chain as the phase found it plus the first i of these filters;
\* then, also when there was nothing to attach, it makes one rfs_info_reset
\* with the destination root and its chain, and no other call.
C28_AddPhase ==
  [][\A t \in Threads : AddPhaseAtEntry(t) =>
       LET dstch == ChainOf(ren[t], ren[t].dst)
           fl == Without(dstch, Range(ChainOf(ren[t], ren[t].src)))
           n == Len(ren[t].calls)
           new == SubSeq(ren'[t].calls, n + 1, Len(ren'[t].calls))
       IN /\ SubSeq(ren'[t].calls, 1, n) = ren[t].calls
          /\ Len(new) = Len(fl) + 1
          /\ \A i \in 1..Len(fl) :
               new[i] = Call("rfs_info_add", ren[t].dst,
                             ren[t].dch \o SubSeq(fl, 1, i), fl[i], "OK")
          /\ new[Len(fl) + 1] = Call("rfs_info_reset", ren[t].dst, dstch, 0, "OK")]_vars

\* C28, its case: a rename between two roots whose chains share no filter
\* has detached the source filter and, in its add phase, attached the
\* destination filter and made the reset.
C28_Witness ==
  /\ pc[1] = "ren_unlock_path" /\ loc[1].rv = "OK" /\ ~ren[1].isroot
  /\ ren[1].src # "NULL" /\ ren[1].dst # "NULL"
  /\ Len(ren[1].calls) = 3
  /\ ren[1].calls[1].op = "rfs_info_rem"
  /\ ren[1].calls[2].op = "rfs_info_add"
  /\ ren[1].calls[3].op = "rfs_info_reset"

\* thread t's rfs_fsrename is at its set phase with both roots, for a dentry
\* that is not the source root's own and has a cache record, and takes a
\* step
SetPhaseAtEntry(t) ==
  /\ pc[t] = "ren_set"
  /\ <<pc[t], bug>>' # <<pc[t], bug>>
  /\ ren[t].src # "NULL" /\ ren[t].dst # "NULL"
  /\ ~ren[t].isroot /\ ren[t].rdentry # "null"

\* C29 as stated (SpecRename): such a set phase makes one rfs_info_set for
\* each filter that is both in the dentry's chain and in the destination
\* root's chain, none when the dentry's chain is empty after the remove
\* phase, each with the destination root and the destination root's chain.
C29_SetPhase ==
  [][\A t \in Threads : SetPhaseAtEntry(t) =>
       LET dstch == ChainOf(ren[t], ren[t].dst)
           fl == Without(ren[t].dch, Flts \ Range(dstch))
           n == Len(ren[t].calls)
           new == SubSeq(ren'[t].calls, n + 1, Len(ren'[t].calls))
       IN /\ bug' = "none"
          /\ pc'[t] = "ren_add" =>
               /\ Len(new) = Len(fl)
               /\ \A i \in 1..Len(fl) :
                    new[i] = Call("rfs_info_set", ren[t].dst, dstch, fl[i], "OK")]_vars

\* thread t's rfs_fsrename has run to its exit with success, for a dentry
\* that is not the source root's own
RenamedAtEntry(t) ==
  /\ pc[t] \in {"ren_unlock_path", "ren_host_unlock"} /\ loc[t].rv = "OK"
  /\ ~(ren[t].src # "NULL" /\ ren[t].isroot)

\* C30 (SpecRename): after a successful rfs_fsrename of such a dentry the
\* chain the cache holds for it is the destination root's chain, each of its
\* filters once and no other, and the empty chain without a destination
\* root.
C30_ChainIsDestination ==
  \A t \in Threads : RenamedAtEntry(t) =>
    LET dstch == ChainOf(ren[t], ren[t].dst)
    IN /\ Range(ren[t].dch) = Range(dstch)
       /\ Len(ren[t].dch) = Cardinality(Range(dstch))
       /\ ren[t].dst = "NULL" => ren[t].dch = << >>

\* C30, its case: a dentry with filters 1 and 2 in force was moved from its
\* source root to a destination root with another chain, the rename made
\* calls in its remove and add phases, and the dentry now has the
\* destination chain.
C30_Witness ==
  /\ pc[1] = "ren_host_unlock" /\ loc[1].rv = "OK" /\ ~ren[1].isroot
  /\ ren[1].src # "NULL" /\ ren[1].dst # "NULL"
  /\ ChainOf(ren[1], ren[1].src) # ChainOf(ren[1], ren[1].dst)
  /\ Len(ChainOf(ren[1], ren[1].src)) = 2
  /\ \E i \in 1..Len(ren[1].calls) : ren[1].calls[i].op = "rfs_info_rem"
  /\ ren[1].dch = ChainOf(ren[1], ren[1].dst)

\* C31 as stated (SpecIds): in every state no two paths of the list have
\* the same id, so the path rfs_path_find_id returns for an id is the one
\* path of the list with that id, wherever it stands in the list.
C31_UniqueIds ==
  \A i, j \in 1..Len(rfs_path_list) :
    rpath[rfs_path_list[i]].id = rpath[rfs_path_list[j]].id =>
      /\ i = j
      /\ PathWithId(Reg, rpath[rfs_path_list[i]].id) = rfs_path_list[i]

\* the mutexes thread t holds
HeldBy(t) ==
  (IF rfs_path_mutex = t THEN {"rfs_path_mutex"} ELSE {})
    \cup {s \in 1..NSb : s_vfs_rename_mutex[s] = t}

\* thread t is inside no call
Outside(t) == pc[t] = "idle"

\* C32 as stated (Spec): a call of redirfs_add_path, redirfs_rem_path,
\* redirfs_get_paths, redirfs_get_path_info, rfs_path_get_info or
\* rfs_fsrename that returns has released every mutex it took, whatever it
\* returns; a thread that gives a rename mutex back has given the registry
\* mutex back before, and rfs_fsrename has done so when it returns to the
\* host; with every thread outside a call no mutex is held.
C32_LocksReleased ==
  /\ \A t \in Threads : Outside(t) => HeldBy(t) = {}
  /\ \A t \in Threads :
       pc[t] \in {"add_unlock_rename", "rem_unlock_rename", "ren_host_unlock"} => rfs_path_mutex # t
  /\ (\A t \in Threads : Outside(t)) =>
       rfs_path_mutex = 0 /\ \A s \in 1..NSb : s_vfs_rename_mutex[s] = 0

====
